---------------------------- MODULE Spec2Model ----------------------------
(***************************************************************************)
(* Canvas screenshot export of the Obsidian plugin                         *)
(* (handleCanvasScreenshot / captureCanvasAsImage and their helpers).      *)
(*                                                                         *)
(* JavaScript runs one task at a time: an action of this model is the code *)
(* that runs between two suspension points (an await on a timer, on the    *)
(* file opening or on the rasterizer).                                     *)
(***************************************************************************)
EXTENDS Integers, Sequences, FiniteSets, TLC

(***************************************************************************)
(* JavaScript numbers.  A number is a pair <<n, d>>: a reduced fraction    *)
(* n/d with d > 0, or <<1,0>> (Infinity), <<-1,0>> (-Infinity), <<0,0>>    *)
(* (NaN).  Arithmetic is exact (no rounding), with the IEEE rules for      *)
(* division by zero, Infinity and NaN.                                     *)
(***************************************************************************)
Abs(i) == IF i < 0 THEN -i ELSE i

Sgn(i) == IF i < 0 THEN -1 ELSE IF i > 0 THEN 1 ELSE 0

RECURSIVE GCD(_, _)
GCD(a, b) == IF b = 0 THEN a ELSE GCD(b, a % b)

Norm(n, d) ==
    IF d = 0 THEN <<Sgn(n), 0>>
    ELSE LET g == GCD(Abs(n), Abs(d))
             s == Sgn(d)
         IN  <<(s * n) \div g, (s * d) \div g>>

Num(i) == <<i, 1>>

Frac(n, d) == Norm(n, d)

PosInf == <<1, 0>>

NegInf == <<-1, 0>>

NaN == <<0, 0>>

IsNaN(a) == a = NaN

IsFinite(a) == a[2] > 0

Neg(a) == <<-a[1], a[2]>>

Add(a, b) ==
    IF a[2] = 0 /\ b[2] = 0
    THEN (IF a = b THEN a ELSE NaN)
    ELSE Norm(a[1] * b[2] + b[1] * a[2], a[2] * b[2])

Sub(a, b) == Add(a, Neg(b))

Mul(a, b) == Norm(a[1] * b[1], a[2] * b[2])

Div(a, b) == Norm(a[1] * b[2], a[2] * b[1])

Lt(a, b) ==
    /\ ~IsNaN(a)
    /\ ~IsNaN(b)
    /\ a # b
    /\ \/ a = NegInf
       \/ b = PosInf
       \/ (a[2] > 0 /\ b[2] > 0 /\ a[1] * b[2] < b[1] * a[2])

Gt(a, b) == Lt(b, a)

Le(a, b) == Lt(a, b) \/ (a = b /\ ~IsNaN(a))

\* Math.min / Math.max of two numbers (NaN if either is NaN)
MathMin(a, b) == IF IsNaN(a) \/ IsNaN(b) THEN NaN ELSE IF Lt(b, a) THEN b ELSE a

MathMax(a, b) == IF IsNaN(a) \/ IsNaN(b) THEN NaN ELSE IF Gt(b, a) THEN b ELSE a

\* Math.round: the nearest integer, halves towards +Infinity
MathRound(a) == IF a[2] = 0 THEN a ELSE Num((2 * a[1] + a[2]) \div (2 * a[2]))

\* Math.log2(z), kept symbolic: the value whose power of two is z
MathLog2(z) == <<"log2", z>>

\* 2 ^ v for a value v produced by Math.log2
Exp2(v) == v[2]

(***************************************************************************)
(* Geometry helpers                                                        *)
(***************************************************************************)
BBox(a, b, c, d) == [minX |-> a, minY |-> b, maxX |-> c, maxY |-> d]

BoxWidth(b) == Sub(b.maxX, b.minX)

BoxHeight(b) == Sub(b.maxY, b.minY)

RECURSIVE combineFrom(_, _)
combineFrom(acc, bboxes) ==
    IF bboxes = <<>> THEN acc
    ELSE combineFrom(BBox(MathMin(acc.minX, Head(bboxes).minX),
                          MathMin(acc.minY, Head(bboxes).minY),
                          MathMax(acc.maxX, Head(bboxes).maxX),
                          MathMax(acc.maxY, Head(bboxes).maxY)),
                     Tail(bboxes))

\* faulty variant of combineBBoxes: the last box given wins
combineBBoxesLastWins(bboxes) ==
    IF bboxes = <<>> THEN BBox(PosInf, PosInf, NegInf, NegInf) ELSE bboxes[Len(bboxes)]

\* faulty variant of combineBBoxes: the fold starts from the box of the origin
combineBBoxesFromOrigin(bboxes) ==
    combineFrom(BBox(Num(0), Num(0), Num(0), Num(0)), bboxes)

combineBBoxes(bboxes) == combineFrom(BBox(PosInf, PosInf, NegInf, NegInf), bboxes)

\* faulty variant of scaleBBox: the box grows by scale times its size
scaleBBoxByWholeSize(bbox, scale) ==
    LET diffX == Mul(scale, Sub(bbox.maxX, bbox.minX))
        diffY == Mul(scale, Sub(bbox.maxY, bbox.minY))
    IN  BBox(Sub(bbox.minX, Div(diffX, Num(2))),
             Sub(bbox.minY, Div(diffY, Num(2))),
             Add(bbox.maxX, Div(diffX, Num(2))),
             Add(bbox.maxY, Div(diffY, Num(2))))

scaleBBox(bbox, scale) ==
    LET diffX == Mul(Sub(scale, Num(1)), Sub(bbox.maxX, bbox.minX))
        diffY == Mul(Sub(scale, Num(1)), Sub(bbox.maxY, bbox.minY))
    IN  BBox(Sub(bbox.minX, Div(diffX, Num(2))),
             Sub(bbox.minY, Div(diffY, Num(2))),
             Add(bbox.maxX, Div(diffX, Num(2))),
             Add(bbox.maxY, Div(diffY, Num(2))))

\* faulty variant of enlargeBBox: the padding is shared between opposite sides
enlargeBBoxByHalf(bbox, padding) ==
    BBox(Sub(bbox.minX, Div(padding, Num(2))), Sub(bbox.minY, Div(padding, Num(2))),
         Add(bbox.maxX, Div(padding, Num(2))), Add(bbox.maxY, Div(padding, Num(2))))

enlargeBBox(bbox, padding) ==
    BBox(Sub(bbox.minX, padding), Sub(bbox.minY, padding),
         Add(bbox.maxX, padding), Add(bbox.maxY, padding))


(***************************************************************************)
(* Bounds of the model and constants of the program                        *)
(***************************************************************************)
\* the requests of one behaviour; Spec serves request 1 alone
Reqs == {1, 2}

\* a timer fires after its delay or later (setTimeout promises the delay as a
\* minimum): up to this many half delays later
MaxLate == 2

MAX_LOADING_TIME == 15000

POLL_INTERVAL == 10

DEFAULT_TIMEOUT == 1000

\* the delay after each application of the viewport
SETTLE_DELAY == 10

\* the possible durations of sleep(ms)
SleepDurations(ms) == {ms + k * (ms \div 2) : k \in 0 .. MaxLate}

(***************************************************************************)
(* The canvas documents of the model                                       *)
(***************************************************************************)
NoBox == BBox(NaN, NaN, NaN, NaN)

\* a node: its rectangle, what its getBBox does ("absent": no such method,
\* "throws", "null": returns nothing, "box": returns box), its readiness flags
\* ("true", "false" or "absent")
Node(x, y, w, h, bbKind, box, init, mounted) ==
    [x |-> Num(x), y |-> Num(y), width |-> Num(w), height |-> Num(h),
     bbKind |-> bbKind, box |-> box, initialized |-> init, isContentMounted |-> mounted]

\* an edge: its centre, the width of its label in canvas units (labelled = FALSE:
\* no labelElement), what its getBBox does
Edge(cx, cy, labelled, labelW, bbKind, box) ==
    [cx |-> Num(cx), cy |-> Num(cy), labelled |-> labelled, labelW |-> Num(labelW),
     bbKind |-> bbKind, box |-> box]

SquareNode == Node(0, 0, 20, 20, "absent", NoBox, "absent", "absent")

WideNode == Node(-10, 0, 40, 10, "absent", NoBox, "true", "true")

SmallNode == Node(0, 0, 2, 2, "absent", NoBox, "true", "true")

ThinNode == Node(5, 5, 0, 10, "absent", NoBox, "true", "true")

FlatNode == Node(5, 5, 10, 0, "absent", NoBox, "true", "true")

PointNode == Node(5, 5, 0, 0, "absent", NoBox, "true", "true")

LoadingNode == Node(30, 0, 10, 10, "absent", NoBox, "true", "false")

LabelledEdge == Edge(25, 10, TRUE, 30, "absent", NoBox)

PlainEdge == Edge(25, 10, FALSE, 0, "absent", NoBox)

\* an edge whose label reaches beyond the nodes, to the left
OverhangEdge == Edge(-10, 10, TRUE, 30, "absent", NoBox)

Canvases ==
    { [nodes |-> <<>>, edges |-> <<>>],
      [nodes |-> <<SquareNode>>, edges |-> <<>>],
      [nodes |-> <<WideNode>>, edges |-> <<>>],
      [nodes |-> <<SmallNode>>, edges |-> <<>>],
      [nodes |-> <<ThinNode>>, edges |-> <<>>],
      [nodes |-> <<FlatNode>>, edges |-> <<>>],
      [nodes |-> <<PointNode>>, edges |-> <<>>],
      [nodes |-> <<SquareNode, LoadingNode>>, edges |-> <<LabelledEdge>>],
      [nodes |-> <<SquareNode, WideNode>>, edges |-> <<PlainEdge>>],
      [nodes |-> <<SquareNode, WideNode>>, edges |-> <<OverhangEdge>>] }

\* canvas.canvasRect (= the client size of canvasEl)
Surfaces == { [width |-> Num(8), height |-> Num(6)], [width |-> Num(6), height |-> Num(6)] }

\* what a canvas may show when a request arrives: its viewport (x, y, zoom),
\* whether its first item is selected, and its zoomCenter (null at rest, a point
\* while the user zooms)
Views ==
    { [viewport |-> <<Num(0), Num(0), MathLog2(Num(1))>>, selectFirst |-> FALSE,
       zoomCenter |-> "null"],
      [viewport |-> <<Num(7), Num(-3), MathLog2(Frac(1, 2))>>, selectFirst |-> TRUE,
       zoomCenter |-> "point"] }

\* a timeout a request may give instead of the default
GivenTimeout == 50

(***************************************************************************)
(* State                                                                   *)
(***************************************************************************)
VARIABLES
    cfg,       \* the canvas file of the behaviour: its nodes and edges, canvasRect
    canvas,    \* the Canvas object: x, y, zoom, tx, ty, tZoom, zoomCenter, selection,
               \* screenshotting, the is-exporting class, the scale of the transform style
    leafOpen,  \* whether a leaf shows the canvas file
    body,      \* the interaction blockers attached to document.body
    flags,     \* flags[i]: the initialized / isContentMounted flags of node i
    pc,        \* pc[r]: where request r is suspended
    loc,       \* loc[r]: the local variables of request r
    log        \* log[r]: what request r has done so far, in order (history)

vars == <<cfg, canvas, leafOpen, body, flags, pc, loc, log>>

NoViewport == <<NaN, NaN, MathLog2(NaN)>>

InitLoc ==
    [timeout |-> 0, cachedSelection |-> {}, cachedViewport |-> NoViewport,
     enlargedBBox |-> NoBox, adjustedBBox |-> NoBox, pixelRatio |-> NaN,
     actualAspectRatio |-> NaN, targetAspectRatio |-> NaN,
     width |-> NaN, height |-> NaN, elapsed |-> 0]

Init ==
    /\ cfg \in [canvas : Canvases, rect : Surfaces]
    /\ \E u \in Views :
          LET v == u.viewport
          IN  canvas = [x |-> v[1], y |-> v[2], zoom |-> v[3],
                        tx |-> v[1], ty |-> v[2], tZoom |-> v[3],
                        zoomCenter |-> u.zoomCenter,
                        selection |-> IF u.selectFirst
                                      THEN {1} \cap (1 .. Len(cfg.canvas.nodes))
                                      ELSE {},
                        screenshotting |-> FALSE, isExporting |-> FALSE,
                        transform |-> Exp2(v[3]), dirty |-> FALSE]
    /\ leafOpen \in BOOLEAN
    /\ body = {}
    /\ flags = [i \in 1 .. Len(cfg.canvas.nodes) |->
                  [initialized |-> cfg.canvas.nodes[i].initialized,
                   isContentMounted |-> cfg.canvas.nodes[i].isContentMounted]]
    /\ pc = [r \in Reqs |-> "idle"]
    /\ loc = [r \in Reqs |-> InitLoc]
    /\ log = [r \in Reqs |-> <<>>]

(***************************************************************************)
(* The host's Canvas methods used by the export                            *)
(***************************************************************************)
\* canvas.setViewport(x, y, zoom)
setViewport(c, x, y, z) ==
    [c EXCEPT !.x = x, !.y = y, !.zoom = z, !.tx = x, !.ty = y, !.tZoom = z, !.dirty = TRUE]

\* canvas.deselectAll()
deselectAll(c) == [c EXCEPT !.selection = {}]

\* canvas.getViewportBBox(): the part of the canvas the render surface shows
getViewportBBox(c, rect) ==
    LET w == Div(rect.width, Exp2(c.zoom))
        h == Div(rect.height, Exp2(c.zoom))
    IN  BBox(Sub(c.x, Div(w, Num(2))), Sub(c.y, Div(h, Num(2))),
             Add(c.x, Div(w, Num(2))), Add(c.y, Div(h, Num(2))))

(***************************************************************************)
(* Helpers of the export                                                   *)
(***************************************************************************)
NodeRect(node) ==
    BBox(node.x, node.y, Add(node.x, node.width), Add(node.y, node.height))

\* faulty variant of calculateBoundingBox: a node whose getBBox throws or returns
\* nothing is left out
calculateBoundingBoxDropsNodes(nodes, edges) ==
    LET Usable(n) == n.bbKind \in {"box", "absent"}
        usable == SelectSeq(nodes, Usable)
        nodeBoxes == [i \in 1 .. Len(usable) |->
                        IF usable[i].bbKind = "box" THEN usable[i].box ELSE NodeRect(usable[i])]
        HasBox(e) == e.bbKind = "box"
        withBox == SelectSeq(edges, HasBox)
        edgeBoxes == [i \in 1 .. Len(withBox) |-> withBox[i].box]
    IN  combineBBoxes(nodeBoxes \o edgeBoxes)

\* faulty variant of calculateBoundingBox: without the fallback to the rectangle
\* of the node
calculateBoundingBoxRefinedOnly(nodes, edges) ==
    LET HasBox(e) == e.bbKind = "box"
        refined == SelectSeq(nodes, HasBox)
        nodeBoxes == [i \in 1 .. Len(refined) |-> refined[i].box]
        withBox == SelectSeq(edges, HasBox)
        edgeBoxes == [i \in 1 .. Len(withBox) |-> withBox[i].box]
    IN  combineBBoxes(nodeBoxes \o edgeBoxes)

\* faulty variant of calculateBoundingBox: whatever an edge's getBBox gives is
\* collected
calculateBoundingBoxAllEdges(nodes, edges) ==
    LET nodeBoxes == [i \in 1 .. Len(nodes) |->
                        IF nodes[i].bbKind = "box" THEN nodes[i].box ELSE NodeRect(nodes[i])]
        edgeBoxes == [i \in 1 .. Len(edges) |-> edges[i].box]
    IN  combineBBoxes(nodeBoxes \o edgeBoxes)

calculateBoundingBox(nodes, edges) ==
    LET nodeBoxes == [i \in 1 .. Len(nodes) |->
                        IF nodes[i].bbKind = "box" THEN nodes[i].box ELSE NodeRect(nodes[i])]
        HasBox(e) == e.bbKind = "box"
        withBox == SelectSeq(edges, HasBox)
        edgeBoxes == [i \in 1 .. Len(withBox) |-> withBox[i].box]
    IN  combineBBoxes(nodeBoxes \o edgeBoxes)

\* faulty variant of extractCanvasScale: the style is never matched
extractCanvasScaleDefault(transform) == Num(1)

\* the number the regular expression scale\((\d+(?:\.\d+)?)\) finds in the transform
\* style: a number printed in exponent form (below 1e-6), Infinity or NaN does not
\* match, and the scale is then taken to be 1
extractCanvasScale(transform) ==
    IF IsFinite(transform) /\ ~Lt(transform, Num(0))
       /\ (transform = Num(0) \/ ~Lt(transform, Frac(1, 1000000)))
    THEN transform
    ELSE Num(1)

\* a canvas that has no canvasRect
NoRect == [missing |-> TRUE]

\* faulty variant of zoomToRealBbox: the zoom is clamped in every case
zoomToRealBboxClamped(c, rect, bbox) ==
    IF rect = NoRect \/ rect.width = Num(0) \/ rect.height = Num(0) THEN c
    ELSE LET bboxWidth == Sub(bbox.maxX, bbox.minX)
             bboxHeight == Sub(bbox.maxY, bbox.minY)
             widthZoom == Div(rect.width, bboxWidth)
             heightZoom == Div(rect.height, bboxHeight)
             zoom == MathMin(MathMin(widthZoom, heightZoom), Num(1))
         IN  IF Le(bboxWidth, Num(0)) \/ Le(bboxHeight, Num(0)) THEN c
             ELSE [c EXCEPT !.tZoom = MathLog2(zoom),
                            !.zoomCenter = "null",
                            !.tx = Div(Add(bbox.minX, bbox.maxX), Num(2)),
                            !.ty = Div(Add(bbox.minY, bbox.maxY), Num(2)),
                            !.dirty = TRUE]

\* faulty variant of zoomToRealBbox: a box without width or height is framed too
zoomToRealBboxUnguarded(c, rect, bbox) ==
    IF rect = NoRect \/ rect.width = Num(0) \/ rect.height = Num(0) THEN c
    ELSE LET widthZoom == Div(rect.width, Sub(bbox.maxX, bbox.minX))
             heightZoom == Div(rect.height, Sub(bbox.maxY, bbox.minY))
             zoom == IF c.screenshotting
                     THEN MathMin(widthZoom, heightZoom)
                     ELSE MathMin(MathMin(widthZoom, heightZoom), Num(1))
         IN  [c EXCEPT !.tZoom = MathLog2(zoom),
                       !.zoomCenter = "null",
                       !.tx = Div(Add(bbox.minX, bbox.maxX), Num(2)),
                       !.ty = Div(Add(bbox.minY, bbox.maxY), Num(2)),
                       !.dirty = TRUE]

\* the fallback of zoomToRealBbox
zoomToRealBbox(c, rect, bbox) ==
    IF rect = NoRect \/ rect.width = Num(0) \/ rect.height = Num(0) THEN c
    ELSE LET bboxWidth == Sub(bbox.maxX, bbox.minX)
             bboxHeight == Sub(bbox.maxY, bbox.minY)
             widthZoom == Div(rect.width, bboxWidth)
             heightZoom == Div(rect.height, bboxHeight)
             zoom == IF c.screenshotting
                     THEN MathMin(widthZoom, heightZoom)
                     ELSE MathMin(MathMin(widthZoom, heightZoom), Num(1))
         IN  IF Le(bboxWidth, Num(0)) \/ Le(bboxHeight, Num(0)) THEN c
             ELSE [c EXCEPT !.tZoom = MathLog2(zoom),
                            !.zoomCenter = "null",
                            !.tx = Div(Add(bbox.minX, bbox.maxX), Num(2)),
                            !.ty = Div(Add(bbox.minY, bbox.maxY), Num(2)),
                            !.dirty = TRUE]

\* what a zoomToRealBbox method of the host (Advanced Canvas) may do to the
\* canvas: its code is the host's, so it is one of these
HostZoomEffects == {"none", "pans"}

hostZoomToRealBbox(c, bbox, effect) ==
    IF effect = "none" THEN c
    ELSE [c EXCEPT !.tx = bbox.minX, !.ty = bbox.minY, !.dirty = TRUE]

\* zoomToRealBbox as a whole: the method of the host where the canvas has one
\* (native), with the calls made of it, and the fallback otherwise
zoomToRealBboxOnHost(c, rect, bbox, native, effect) ==
    IF native
    THEN [canvas |-> hostZoomToRealBbox(c, bbox, effect), hostCalls |-> <<bbox>>]
    ELSE [canvas |-> zoomToRealBbox(c, rect, bbox), hostCalls |-> <<>>]

\* faulty variant of UnloadedNodes: a flag that is not set counts as false
UnloadedNodesNotTrue(f) ==
    {i \in DOMAIN f : f[i].initialized # "true" \/ f[i].isContentMounted # "true"}

\* the nodes waitForNodesReady counts as not loaded
UnloadedNodes(f) ==
    {i \in DOMAIN f : f[i].initialized = "false" \/ f[i].isContentMounted = "false"}

(***************************************************************************)
(* The render tree and the element filter (step 10)                        *)
(***************************************************************************)
\* an element: the canvas and the item it was created for, its role, the
\* classes of its classList and of its parent's classList
Element(cv, role, item, classes, parentClasses) ==
    [canvas |-> cv, role |-> role, item |-> item,
     classes |-> classes, parentClasses |-> parentClasses]

nodeEl(cv, i) == Element(cv, "nodeEl", i, {"canvas-node"}, {"canvas"})

lineGroupEl(cv, i) == Element(cv, "lineGroupEl", i, {}, {"canvas-edges"})

lineEndGroupEl(cv, i) == Element(cv, "lineEndGroupEl", i, {}, {"canvas-edges"})

wrapperEl(cv, i) == Element(cv, "wrapperEl", i, {"canvas-path-label-wrapper"}, {"canvas"})

\* the three lists of the exported canvas
nodeElements(nodes) == {nodeEl("exported", i) : i \in 1 .. Len(nodes)}

edgePathAndArrowElements(edges) ==
    {lineGroupEl("exported", i) : i \in 1 .. Len(edges)}
        \cup {lineEndGroupEl("exported", i) : i \in 1 .. Len(edges)}

edgeLabelElements(edges) ==
    {wrapperEl("exported", i) : i \in {j \in 1 .. Len(edges) : edges[j].labelled}}

\* faulty variant of filter: only the node elements are checked
filterNodesOnly(element, nodes, edges) ==
    ~("canvas-node" \in element.classes /\ element \notin nodeElements(nodes))

\* faulty variant of filter: every label wrapper is rejected
filterRejectsLabels(element, nodes, edges) ==
    IF "canvas-node" \in element.classes /\ element \notin nodeElements(nodes)
    THEN FALSE
    ELSE IF "canvas-edges" \in element.parentClasses
            /\ element \notin edgePathAndArrowElements(edges)
    THEN FALSE
    ELSE IF "canvas-path-label-wrapper" \in element.classes
    THEN FALSE
    ELSE TRUE

\* the predicate handed to the rasterizer
filter(element, nodes, edges) ==
    IF "canvas-node" \in element.classes /\ element \notin nodeElements(nodes)
    THEN FALSE
    ELSE IF "canvas-edges" \in element.parentClasses
            /\ element \notin edgePathAndArrowElements(edges)
    THEN FALSE
    ELSE IF "canvas-path-label-wrapper" \in element.classes
            /\ element \notin edgeLabelElements(edges)
    THEN FALSE
    ELSE TRUE

\* the elements of a second canvas in the same render tree: two nodes, an edge
\* between them and its label
OtherCanvasElements ==
    {nodeEl("other", 1), nodeEl("other", 2), lineGroupEl("other", 1),
     lineEndGroupEl("other", 1), wrapperEl("other", 1)}

\* elements that belong to no canvas item
ChromeElements ==
    {Element("none", "canvasEl", 0, {"canvas"}, {"canvas-wrapper"}),
     Element("none", "edgesSvg", 0, {"canvas-edges"}, {"canvas"}),
     Element("none", "overlay", 0, {"canvas-controls"}, {"canvas-wrapper"})}

\* the elements the rasterizer applies the filter to
RenderTree(nodes, edges) ==
    nodeElements(nodes) \cup edgePathAndArrowElements(edges) \cup edgeLabelElements(edges)
        \cup OtherCanvasElements \cup ChromeElements

\* the elements the filter lets into the capture
InclusionSet(nodes, edges) == {e \in RenderTree(nodes, edges) : filter(e, nodes, edges)}

(***************************************************************************)
(* captureCanvasAsImage, step by step                                      *)
(***************************************************************************)
\* STEP 4: the enlarged box extended from its top-left corner to the aspect
\* ratio of the render surface
adjustForAspect(enlargedBBox, actualAspectRatio, targetAspectRatio) ==
    IF Gt(actualAspectRatio, targetAspectRatio)
    THEN LET targetHeight == Sub(enlargedBBox.maxY, enlargedBBox.minY)
             actualWidth == Mul(targetHeight, actualAspectRatio)
         IN  [enlargedBBox EXCEPT !.maxX = Add(enlargedBBox.minX, actualWidth)]
    ELSE LET targetWidth == Sub(enlargedBBox.maxX, enlargedBBox.minX)
             actualHeight == Div(targetWidth, actualAspectRatio)
         IN  [enlargedBBox EXCEPT !.maxY = Add(enlargedBBox.minY, actualHeight)]

\* STEPS 1 to 4: the boxes and ratios computed before the first zoom
framePrelude(nodes, edges, rect) ==
    LET targetBBox == calculateBoundingBox(nodes, edges)
        enlargedBBox == scaleBBox(targetBBox, Frac(11, 10))
        enlargedWidth == Sub(enlargedBBox.maxX, enlargedBBox.minX)
        enlargedHeight == Sub(enlargedBBox.maxY, enlargedBBox.minY)
        requiredPixelRatio == MathMax(Div(enlargedWidth, rect.width),
                                      Div(enlargedHeight, rect.height))
        actualAspectRatio == Div(rect.width, rect.height)
        targetAspectRatio == Div(enlargedWidth, enlargedHeight)
    IN  [targetBBox |-> targetBBox,
         enlargedBBox |-> enlargedBBox,
         pixelRatio |-> MathRound(Mul(requiredPixelRatio, Num(1))),
         actualAspectRatio |-> actualAspectRatio,
         targetAspectRatio |-> targetAspectRatio,
         adjustedBBox |-> adjustForAspect(enlargedBBox, actualAspectRatio, targetAspectRatio)]

\* STEP 6: the box of one edge's label; onScreen is the scale the label is
\* drawn with, canvasScale the scale read from the transform style
labelBBox(edge, onScreen, canvasScale) ==
    LET labelWidth == IF edge.labelled
                      THEN Div(Mul(edge.labelW, onScreen), canvasScale)
                      ELSE Num(0)
    IN  BBox(Sub(edge.cx, Div(labelWidth, Num(2))), edge.cy,
             Add(edge.cx, Div(labelWidth, Num(2))), edge.cy)

\* faulty variant of enlargedEdgePathsBBox: edges without a label are left out
enlargedEdgePathsBBoxLabelledOnly(edges, onScreen, canvasScale) ==
    LET HasLabel(e) == e.labelled
        labelled == SelectSeq(edges, HasLabel)
    IN  enlargeBBox(combineBBoxes([i \in 1 .. Len(labelled) |->
                                      labelBBox(labelled[i], onScreen, canvasScale)]),
                    Frac(11, 10))

\* STEP 6: the padded box of the labels of all edges
enlargedEdgePathsBBox(edges, onScreen, canvasScale) ==
    enlargeBBox(combineBBoxes([i \in 1 .. Len(edges) |->
                                  labelBBox(edges[i], onScreen, canvasScale)]),
                Frac(11, 10))

\* faulty variant of augmentWithLabels: the labels are left out
augmentWithoutLabels(bbox, labels) == bbox

\* STEP 6: a working box merged with the padded box of the labels
augmentWithLabels(bbox, labels) == combineBBoxes(<<bbox, labels>>)

\* faulty variant of finalSize: the pixel size of the viewport, not adjusted
finalSizeUnadjusted(c, rect, actualAspectRatio, targetAspectRatio) ==
    LET canvasViewportBBox == getViewportBBox(c, rect)
        canvasScale == extractCanvasScale(c.transform)
    IN  [width |-> Mul(Sub(canvasViewportBBox.maxX, canvasViewportBBox.minX), canvasScale),
         height |-> Mul(Sub(canvasViewportBBox.maxY, canvasViewportBBox.minY), canvasScale)]

\* STEP 7: the width and height handed to the rasterizer
finalSize(c, rect, actualAspectRatio, targetAspectRatio) ==
    LET canvasViewportBBox == getViewportBBox(c, rect)
        canvasScale == extractCanvasScale(c.transform)
        width == Mul(Sub(canvasViewportBBox.maxX, canvasViewportBBox.minX), canvasScale)
        height == Mul(Sub(canvasViewportBBox.maxY, canvasViewportBBox.minY), canvasScale)
    IN  IF Gt(actualAspectRatio, targetAspectRatio)
        THEN [width |-> Mul(height, targetAspectRatio), height |-> height]
        ELSE [width |-> width, height |-> Div(width, targetAspectRatio)]

\* faulty variant of restoreCanvas: the finally block without its setViewport
restoreCanvasKeepsFrame(c, l) ==
    [c EXCEPT !.screenshotting = FALSE,
              !.isExporting = FALSE,
              !.selection = l.cachedSelection]

\* the finally block: what it leaves of the canvas
restoreCanvas(c, l) ==
    setViewport([c EXCEPT !.screenshotting = FALSE,
                          !.isExporting = FALSE,
                          !.selection = l.cachedSelection],
                l.cachedViewport[1], l.cachedViewport[2], l.cachedViewport[3])

\* the finally block: what it leaves of document.body
restoreBody(b, r) == b \ {<<r, "capture">>}

(***************************************************************************)
(* Reading the history of a request                                        *)
(***************************************************************************)
Events(r, name) ==
    LET Named(e) == e[1] = name
    IN  SelectSeq(log[r], Named)

Has(r, name) == \E i \in DOMAIN log[r] : log[r][i][1] = name

Count(r, name) == Len(Events(r, name))

(***************************************************************************)
(* Messages and responses                                                  *)
(***************************************************************************)
NoNodesError == "Canvas has no nodes to capture"

NotLoadedError == "Export cancelled: Nodes did not finish loading in time"

HostError == "host error"

Response(status, image, mimeType, error) ==
    [status |-> status, image |-> image, mimeType |-> mimeType, error |-> error]

ErrorResponse(status, error) == Response(status, "none", "none", error)

Ev(name, what) == <<name, what>>

\* the events of the finally block of captureCanvasAsImage
RestoreEvents(l) ==
    << Ev("flagCleared", 0), Ev("classRemoved", 0), Ev("selectionRestored", l.cachedSelection),
       Ev("setViewport", l.cachedViewport), Ev("guardRemoved", 0), Ev("restored", 0) >>

\* faulty variant of Respond: the handler's finally block leaves its blocker
RespondKeepsBlocker(r, lg, c, b, resp) ==
    /\ log' = [log EXCEPT ![r] = lg \o << Ev("respond", resp), Ev("handlerFinally", 0) >>]
    /\ canvas' = c
    /\ body' = b
    /\ pc' = [pc EXCEPT ![r] = "done"]
    /\ loc' = [loc EXCEPT ![r] = InitLoc]

\* the handler sends a response and then runs its finally block; the request ends
Respond(r, lg, c, b, resp) ==
    /\ log' = [log EXCEPT ![r] = lg \o << Ev("respond", resp), Ev("handlerFinally", 0) >>]
    /\ canvas' = c
    /\ body' = b \ {<<r, "handler">>}
    /\ pc' = [pc EXCEPT ![r] = "done"]
    /\ loc' = [loc EXCEPT ![r] = InitLoc]

\* faulty variant of FailInTry: the error is sent before the finally block runs
FailInTryRespondsFirst(r, lg, c, b, l, msg) ==
    /\ log' = [log EXCEPT ![r] = lg \o << Ev("captureThrow", msg),
                                          Ev("respond", ErrorResponse(500, msg)) >>
                                     \o RestoreEvents(l) \o << Ev("handlerFinally", 0) >>]
    /\ canvas' = restoreCanvas(c, l)
    /\ body' = restoreBody(b, r) \ {<<r, "handler">>}
    /\ pc' = [pc EXCEPT ![r] = "done"]
    /\ loc' = [loc EXCEPT ![r] = InitLoc]

\* captureCanvasAsImage leaves its try block with an exception: the finally
\* block runs, then the handler's catch
FailInTry(r, lg, c, b, l, msg) ==
    Respond(r, lg \o RestoreEvents(l) \o << Ev("captureThrow", msg) >>,
            restoreCanvas(c, l), restoreBody(b, r), ErrorResponse(500, msg))

(***************************************************************************)
(* handleCanvasScreenshot: from the request to the call of the export      *)
(***************************************************************************)
\* the timeout parameter of a request: omitted (<<>>) or given
Timeouts == {<<>>, <<GivenTimeout>>}

\* const { filename, timeout = 1000 } = params
EffectiveTimeout(t) == IF t = <<>> THEN DEFAULT_TIMEOUT ELSE t[1]

\* faulty variant of ActivateLeaf: the wait comes before the activation
ActivateLeafSleepsFirst(r, lg, tmo) ==
    /\ log' = [log EXCEPT ![r] = lg \o << Ev("sleep", tmo), Ev("activateLeaf", 0) >>]
    /\ pc' = [pc EXCEPT ![r] = "activateSleep"]
    /\ loc' = [loc EXCEPT ![r].timeout = tmo]

\* the leaf is activated and revealed, then sleep(timeout)
ActivateLeaf(r, lg, tmo) ==
    /\ log' = [log EXCEPT ![r] = lg \o << Ev("activateLeaf", 0), Ev("sleep", tmo) >>]
    /\ pc' = [pc EXCEPT ![r] = "activateSleep"]
    /\ loc' = [loc EXCEPT ![r].timeout = tmo]

\* a request arrives: blocker, validation, the lookup of an open leaf
HandleRequest(r) ==
    /\ pc[r] = "idle"
    /\ \E valid \in BOOLEAN, file \in {"missing", "note", "canvas"}, timeout \in Timeouts :
          LET lg == log[r] \o << Ev("handlerBlocker", 0),
                                 Ev("request", [valid |-> valid, file |-> file,
                                                timeout |-> timeout]) >>
              b == body \cup {<<r, "handler">>}
              tmo == EffectiveTimeout(timeout)
          IN  IF ~valid
              THEN /\ Respond(r, lg, canvas, b, ErrorResponse(400, "Invalid request body"))
                   /\ UNCHANGED <<cfg, leafOpen, flags>>
              ELSE IF file = "missing"
              THEN /\ Respond(r, lg, canvas, b, ErrorResponse(404, "File not found"))
                   /\ UNCHANGED <<cfg, leafOpen, flags>>
              ELSE IF file = "note"
              THEN /\ Respond(r, lg, canvas, b, ErrorResponse(400, "File is not a canvas file"))
                   /\ UNCHANGED <<cfg, leafOpen, flags>>
              ELSE IF leafOpen
              THEN /\ ActivateLeaf(r, lg \o << Ev("findLeaf", TRUE) >>, tmo)
                   /\ body' = b
                   /\ UNCHANGED <<cfg, canvas, leafOpen, flags>>
              ELSE /\ log' = [log EXCEPT ![r] = lg \o << Ev("findLeaf", FALSE),
                                                         Ev("openFile", 0) >>]
                   /\ pc' = [pc EXCEPT ![r] = "opening"]
                   /\ loc' = [loc EXCEPT ![r].timeout = tmo]
                   /\ body' = b
                   /\ UNCHANGED <<cfg, canvas, leafOpen, flags>>

\* openFile settles: the handler sleeps for the timeout, or openFile rejected
OpenFileDone(r) ==
    /\ pc[r] = "opening"
    /\ \E opened \in BOOLEAN :
          IF opened
          THEN /\ log' = [log EXCEPT ![r] = @ \o << Ev("sleep", loc[r].timeout) >>]
               /\ pc' = [pc EXCEPT ![r] = "openSleep"]
               /\ UNCHANGED <<cfg, canvas, leafOpen, body, flags, loc>>
          ELSE /\ Respond(r, log[r], canvas, body, ErrorResponse(500, HostError))
               /\ UNCHANGED <<cfg, leafOpen, flags>>

\* the wait after openFile ends: the leaf shows a canvas view, or it does not
OpenSleepDone(r) ==
    /\ pc[r] = "openSleep"
    /\ \E isCanvasView \in BOOLEAN :
          IF isCanvasView
          THEN /\ ActivateLeaf(r, log[r] \o << Ev("canvasView", TRUE) >>, loc[r].timeout)
               /\ leafOpen' = TRUE
               /\ UNCHANGED <<cfg, canvas, body, flags>>
          ELSE /\ Respond(r, log[r] \o << Ev("canvasView", FALSE) >>, canvas, body,
                          ErrorResponse(500, "Failed to open canvas view"))
               /\ UNCHANGED <<cfg, leafOpen, flags>>

(***************************************************************************)
(* captureCanvasAsImage                                                    *)
(***************************************************************************)
\* faulty variant of HasNoNodes: the check never fires
HasNoNodesUnchecked(nodes) == Len(nodes) < 0

\* the check that ends the export of a canvas without nodes
HasNoNodes(nodes) == Len(nodes) = 0

\* the wait after the activation ends and captureCanvasAsImage runs up to its
\* first sleep(10): the check for nodes, the setup, steps 1 to 5
StartCapture(r) ==
    /\ pc[r] = "activateSleep"
    /\ LET nodes == cfg.canvas.nodes
           edges == cfg.canvas.edges
           lg0 == log[r] \o << Ev("captureStart",
                                 <<canvas.x, canvas.y, canvas.zoom, canvas.selection,
                                   canvas.tx, canvas.ty, canvas.tZoom, canvas.zoomCenter,
                                   canvas.screenshotting, canvas.isExporting>>) >>
       IN  IF HasNoNodes(nodes)
           THEN /\ Respond(r, lg0 \o << Ev("captureThrow", NoNodesError) >>, canvas, body,
                           ErrorResponse(500, NoNodesError))
                /\ UNCHANGED <<cfg, leafOpen, flags>>
           ELSE LET b1 == body \cup {<<r, "capture">>}
                    c1 == [canvas EXCEPT !.screenshotting = TRUE, !.isExporting = TRUE]
                    lg1 == lg0 \o << Ev("guard", 0), Ev("flag", 0), Ev("class", 0) >>
                    c2 == deselectAll(c1)
                    l2 == [loc[r] EXCEPT !.timeout = 0,
                                         !.cachedSelection = canvas.selection,
                                         !.cachedViewport = <<c2.x, c2.y, c2.zoom>>]
                    lg2 == lg1 \o << Ev("deselectAll", 0), Ev("try", 0) >>
                    pre == framePrelude(nodes, edges, cfg.rect)
                    c3 == zoomToRealBbox(c2, cfg.rect, pre.adjustedBBox)
                    lg3 == lg2 \o << Ev("zoomToRealBbox",
                                         [bbox |-> pre.adjustedBBox,
                                          screenshotting |-> c2.screenshotting]) >>
                    c4 == setViewport(c3, c3.tx, c3.ty, c3.tZoom)
                IN  \E outcome \in {"ok", "deselectAllThrows", "framingThrows"} :
                       CASE outcome = "deselectAllThrows" ->
                              \* the exception leaves the function before its try block
                              /\ Respond(r, lg1 \o << Ev("captureThrow", HostError) >>, c1, b1,
                                         ErrorResponse(500, HostError))
                              /\ UNCHANGED <<cfg, leafOpen, flags>>
                         [] outcome = "framingThrows" ->
                              /\ FailInTry(r, lg3, c3, b1, l2, HostError)
                              /\ UNCHANGED <<cfg, leafOpen, flags>>
                         [] outcome = "ok" ->
                              /\ canvas' = c4
                              /\ body' = b1
                              /\ loc' = [loc EXCEPT ![r] =
                                           [l2 EXCEPT !.enlargedBBox = pre.enlargedBBox,
                                                      !.adjustedBBox = pre.adjustedBBox,
                                                      !.pixelRatio = pre.pixelRatio,
                                                      !.actualAspectRatio = pre.actualAspectRatio,
                                                      !.targetAspectRatio = pre.targetAspectRatio]]
                              /\ log' = [log EXCEPT ![r] = lg3 \o
                                           << Ev("setViewport", <<c3.tx, c3.ty, c3.tZoom>>),
                                              Ev("sleep", SETTLE_DELAY) >>]
                              /\ pc' = [pc EXCEPT ![r] = "settle1"]
                              /\ UNCHANGED <<cfg, leafOpen, flags>>

\* faulty variant of Settle1Done: without a labelled edge the second zoom is
\* skipped
Settle1DoneSkipsUnlabelled(r) ==
    /\ pc[r] = "settle1"
    /\ LET l == loc[r]
           canvasScale == extractCanvasScale(canvas.transform)
           labels == enlargedEdgePathsBBox(cfg.canvas.edges, canvas.transform, canvasScale)
           enlargedBBox == augmentWithLabels(l.enlargedBBox, labels)
           adjustedBBox == augmentWithLabels(l.adjustedBBox, labels)
           c1 == zoomToRealBbox(canvas, cfg.rect, adjustedBBox)
           lg0 == log[r] \o << Ev("measureLabels", [canvasScale |-> canvasScale,
                                                    labels |-> labels]) >>
           lg1 == lg0 \o << Ev("zoomToRealBbox",
                               [bbox |-> adjustedBBox,
                                screenshotting |-> canvas.screenshotting]) >>
       IN  IF \E i \in DOMAIN cfg.canvas.edges : cfg.canvas.edges[i].labelled
           THEN /\ canvas' = setViewport(c1, c1.tx, c1.ty, c1.tZoom)
                /\ loc' = [loc EXCEPT ![r].enlargedBBox = enlargedBBox,
                                      ![r].adjustedBBox = adjustedBBox]
                /\ log' = [log EXCEPT ![r] = lg1 \o
                             << Ev("setViewport", <<c1.tx, c1.ty, c1.tZoom>>),
                                Ev("sleep", SETTLE_DELAY) >>]
                /\ pc' = [pc EXCEPT ![r] = "settle2"]
                /\ UNCHANGED <<cfg, leafOpen, body, flags>>
           ELSE /\ log' = [log EXCEPT ![r] = lg0]
                /\ pc' = [pc EXCEPT ![r] = "settle2"]
                /\ UNCHANGED <<cfg, canvas, leafOpen, body, flags, loc>>

\* the first settle delay ends: step 6, the second zoom, the second sleep(10)
Settle1Done(r) ==
    /\ pc[r] = "settle1"
    /\ LET l == loc[r]
           canvasScale == extractCanvasScale(canvas.transform)
           labels == enlargedEdgePathsBBox(cfg.canvas.edges, canvas.transform, canvasScale)
           enlargedBBox == augmentWithLabels(l.enlargedBBox, labels)
           adjustedBBox == augmentWithLabels(l.adjustedBBox, labels)
           c1 == zoomToRealBbox(canvas, cfg.rect, adjustedBBox)
           lg1 == log[r] \o << Ev("measureLabels", [canvasScale |-> canvasScale,
                                                    labels |-> labels]),
                               Ev("zoomToRealBbox",
                                  [bbox |-> adjustedBBox,
                                   screenshotting |-> canvas.screenshotting]) >>
       IN  \E throws \in BOOLEAN :
              IF throws
              THEN /\ FailInTry(r, lg1, c1, body, l, HostError)
                   /\ UNCHANGED <<cfg, leafOpen, flags>>
              ELSE /\ canvas' = setViewport(c1, c1.tx, c1.ty, c1.tZoom)
                   /\ loc' = [loc EXCEPT ![r].enlargedBBox = enlargedBBox,
                                         ![r].adjustedBBox = adjustedBBox]
                   /\ log' = [log EXCEPT ![r] = lg1 \o
                                << Ev("setViewport", <<c1.tx, c1.ty, c1.tZoom>>),
                                   Ev("sleep", SETTLE_DELAY) >>]
                   /\ pc' = [pc EXCEPT ![r] = "settle2"]
                   /\ UNCHANGED <<cfg, leafOpen, body, flags>>

\* faulty variant of ReturnFromTry: the image is returned before the finally
\* block has run
ReturnFromTryBeforeFinally(r, lg, c, b, l, image) ==
    Respond(r, lg \o << Ev("captureReturn", image) >> \o RestoreEvents(l),
            restoreCanvas(c, l), restoreBody(b, r),
            Response(200, image, "image/png", "none"))

\* the try block returns the image: the finally block runs, then the handler
\* sends the image
ReturnFromTry(r, lg, c, b, l, image) ==
    Respond(r, lg \o RestoreEvents(l) \o << Ev("captureReturn", image) >>,
            restoreCanvas(c, l), restoreBody(b, r),
            Response(200, image, "image/png", "none"))

\* STEP 11: what the rasterizer is called with (the filter is given by the
\* elements it lets through)
toPngOptions(l) ==
    [pixelRatio |-> l.pixelRatio, width |-> l.width, height |-> l.height,
     included |-> InclusionSet(cfg.canvas.nodes, cfg.canvas.edges)]

\* faulty variant of AfterWait: step 9 does not gate the capture
AfterWaitUngated(r, lg, l, unloadedNodes, elapsed, lastSleep) ==
    /\ log' = [log EXCEPT ![r] = lg \o
                 << Ev("waitReturn", unloadedNodes),
                    Ev("toPng", toPngOptions(l)) >>]
    /\ loc' = [loc EXCEPT ![r] = [l EXCEPT !.elapsed = 0]]
    /\ pc' = [pc EXCEPT ![r] = "rasterizing"]
    /\ UNCHANGED <<canvas, body>>

\* waitForNodesReady has returned unloadedNodes, elapsed ms after it started and
\* at the end of a sleep of lastSleep ms: step 9 throws, or steps 10 and 11 build
\* the filter and call the rasterizer
AfterWait(r, lg, l, unloadedNodes, elapsed, lastSleep) ==
    IF unloadedNodes # {}
    THEN FailInTry(r, lg \o << Ev("waitReturn", unloadedNodes),
                              Ev("timedOut", <<elapsed, lastSleep>>) >>,
                   canvas, body, l, NotLoadedError)
    ELSE /\ log' = [log EXCEPT ![r] = lg \o
                      << Ev("waitReturn", unloadedNodes),
                         Ev("toPng", toPngOptions(l)) >>]
         /\ loc' = [loc EXCEPT ![r] = [l EXCEPT !.elapsed = 0]]
         /\ pc' = [pc EXCEPT ![r] = "rasterizing"]
         /\ UNCHANGED <<canvas, body>>

\* faulty variant of KeepWaiting: a sleep may still start when the maximum wait
\* has just elapsed
KeepWaitingInclusive(unloadedNodes, elapsed, maxWait) ==
    unloadedNodes # {} /\ elapsed <= maxWait

\* faulty variant of KeepWaiting: the loop sleeps before it looks at the nodes
KeepWaitingUntilDeadline(unloadedNodes, elapsed, maxWait) == elapsed < maxWait

\* faulty variant of KeepWaiting: the deadline is one poll interval late
KeepWaitingOneMore(unloadedNodes, elapsed, maxWait) ==
    unloadedNodes # {} /\ elapsed < maxWait + POLL_INTERVAL

\* the loop condition of waitForNodesReady
KeepWaiting(unloadedNodes, elapsed, maxWait) == unloadedNodes # {} /\ elapsed < maxWait

\* the second settle delay ends: step 7, then waitForNodesReady up to its first
\* sleep(10), or, with every node loaded, up to the call of the rasterizer
Settle2Done(r) ==
    /\ pc[r] = "settle2"
    /\ LET size == finalSize(canvas, cfg.rect, loc[r].actualAspectRatio,
                             loc[r].targetAspectRatio)
           l == [loc[r] EXCEPT !.width = size.width, !.height = size.height, !.elapsed = 0]
           unloadedNodes == UnloadedNodes(flags)
           lg == log[r] \o << Ev("finalSize",
                                  [width |-> size.width, height |-> size.height,
                                   canvasScale |-> extractCanvasScale(canvas.transform)]),
                               Ev("waitStart", unloadedNodes) >>
       IN  IF KeepWaiting(unloadedNodes, 0, MAX_LOADING_TIME)
           THEN /\ log' = [log EXCEPT ![r] = lg]
                /\ loc' = [loc EXCEPT ![r] = l]
                /\ pc' = [pc EXCEPT ![r] = "poll"]
                /\ UNCHANGED <<canvas, body>>
           ELSE AfterWait(r, lg, l, unloadedNodes, 0, 0)
    /\ UNCHANGED <<cfg, leafOpen, flags>>

\* a sleep(10) of waitForNodesReady ends: the nodes are filtered again
PollDone(r) ==
    /\ pc[r] = "poll"
    /\ \E d \in SleepDurations(POLL_INTERVAL) :
          LET elapsed == loc[r].elapsed + d
              unloadedNodes == UnloadedNodes(flags)
          IN  IF KeepWaiting(unloadedNodes, elapsed, MAX_LOADING_TIME)
              THEN /\ loc' = [loc EXCEPT ![r].elapsed = elapsed]
                   /\ UNCHANGED <<canvas, body, pc, log>>
              ELSE AfterWait(r, log[r], loc[r], unloadedNodes, elapsed, d)
    /\ UNCHANGED <<cfg, leafOpen, flags>>

\* faulty variant of ToPngDone: a rejected toPng is called once more
ToPngDoneRetries(r) ==
    /\ pc[r] = "rasterizing"
    /\ \E resolved \in BOOLEAN :
          IF resolved
          THEN ReturnFromTry(r, log[r] \o << Ev("toPngResolved", 0) >>,
                             canvas, body, loc[r], "png")
          ELSE IF Count(r, "toPng") < 2
          THEN /\ log' = [log EXCEPT ![r] = @ \o
                            << Ev("toPngRejected", 0),
                               Ev("toPng", toPngOptions(loc[r])) >>]
               /\ UNCHANGED <<canvas, body, pc, loc>>
          ELSE FailInTry(r, log[r] \o << Ev("toPngRejected", 0) >>,
                         canvas, body, loc[r], HostError)
    /\ UNCHANGED <<cfg, leafOpen, flags>>

\* toPng settles: it resolves with the data URL or rejects
ToPngDone(r) ==
    /\ pc[r] = "rasterizing"
    /\ \E resolved \in BOOLEAN :
          IF resolved
          THEN ReturnFromTry(r, log[r] \o << Ev("toPngResolved", 0) >>,
                             canvas, body, loc[r], "png")
          ELSE FailInTry(r, log[r] \o << Ev("toPngRejected", 0) >>,
                         canvas, body, loc[r], HostError)
    /\ UNCHANGED <<cfg, leafOpen, flags>>

(***************************************************************************)
(* The host between two tasks of the plugin                                *)
(***************************************************************************)
\* a frame is rendered while an export waits for the layout to settle: the
\* transform style shows the current zoom (the export reads the style after its
\* settle delays only; frames rendered at other times are left out)
HostRender ==
    /\ canvas.dirty
    /\ \E r \in Reqs : pc[r] \in {"settle1", "settle2"}
    /\ canvas' = [canvas EXCEPT !.transform = Exp2(canvas.zoom), !.dirty = FALSE]
    /\ UNCHANGED <<cfg, leafOpen, body, flags, pc, loc, log>>

\* a node finishes initializing or mounting its content
HostNodeLoaded(i) ==
    /\ i \in DOMAIN flags
    /\ \/ /\ flags[i].initialized = "false"
          /\ flags' = [flags EXCEPT ![i].initialized = "true"]
       \/ /\ flags[i].isContentMounted = "false"
          /\ flags' = [flags EXCEPT ![i].isContentMounted = "true"]
    /\ UNCHANGED <<cfg, canvas, leafOpen, body, pc, loc, log>>

(***************************************************************************)
(* Specifications                                                          *)
(***************************************************************************)
Serve(r) ==
    \/ HandleRequest(r)
    \/ OpenFileDone(r)
    \/ OpenSleepDone(r)
    \/ StartCapture(r)
    \/ Settle1Done(r)
    \/ Settle2Done(r)
    \/ PollDone(r)
    \/ ToPngDone(r)

Host ==
    \/ HostRender
    \/ \E i \in 1 .. 2 : HostNodeLoaded(i)

\* one request
Next == Serve(1) \/ Host

Spec == Init /\ [][Next]_vars

(***************************************************************************)
(* waitForNodesReady(nodes, maxWait), called on its own                    *)
(***************************************************************************)
\* the longest maximum wait of the model, in poll intervals
MaxWaitSteps == 2

MaxWaits == {k * POLL_INTERVAL : k \in 0 .. MaxWaitSteps}

\* the readiness flags a node may have when the wait begins
ReadinessFlags ==
    { <<"true", "true">>, <<"absent", "absent">>, <<"false", "true">>, <<"true", "false">>,
      <<"absent", "false">> }

WaitNodes == {Node(0, 0, 10, 10, "absent", NoBox, f[1], f[2]) : f \in ReadinessFlags}

WaitNodeLists == {<<>>} \cup {<<n>> : n \in WaitNodes} \cup (WaitNodes \X WaitNodes)

\* a canvas at rest
RestingCanvas ==
    [x |-> Num(0), y |-> Num(0), zoom |-> MathLog2(Num(1)),
     tx |-> Num(0), ty |-> Num(0), tZoom |-> MathLog2(Num(1)),
     zoomCenter |-> "null", selection |-> {},
     screenshotting |-> FALSE, isExporting |-> FALSE,
     transform |-> Num(1), dirty |-> FALSE]

\* the arguments of the call: the nodes (cfg.canvas.nodes) and maxWait
WaitInit ==
    /\ cfg \in [canvas : {[nodes |-> ns, edges |-> <<>>] : ns \in WaitNodeLists},
                rect : {[width |-> Num(8), height |-> Num(6)]},
                maxWait : MaxWaits]
    /\ canvas = RestingCanvas
    /\ leafOpen = TRUE
    /\ body = {}
    /\ flags = [i \in 1 .. Len(cfg.canvas.nodes) |->
                  [initialized |-> cfg.canvas.nodes[i].initialized,
                   isContentMounted |-> cfg.canvas.nodes[i].isContentMounted]]
    /\ pc = [r \in Reqs |-> "idle"]
    /\ loc = [r \in Reqs |-> InitLoc]
    /\ log = [r \in Reqs |-> <<>>]

\* the call up to its first sleep(10), or to its return when the loop is not
\* entered; a "poll" event records the time since the start and the flags the
\* filter saw
WaitCall(r) ==
    /\ pc[r] = "idle"
    /\ LET unloadedNodes == UnloadedNodes(flags)
           lg == << Ev("poll", [at |-> 0, flags |-> flags]) >>
       IN  IF KeepWaiting(unloadedNodes, 0, cfg.maxWait)
           THEN /\ log' = [log EXCEPT ![r] = lg]
                /\ pc' = [pc EXCEPT ![r] = "waiting"]
           ELSE /\ log' = [log EXCEPT ![r] = lg \o << Ev("waitReturn", unloadedNodes) >>]
                /\ pc' = [pc EXCEPT ![r] = "done"]
    /\ loc' = [loc EXCEPT ![r].elapsed = 0]
    /\ UNCHANGED <<cfg, canvas, leafOpen, body, flags>>

\* a sleep(10) ends: the nodes are filtered again and the loop condition is
\* evaluated
WaitPoll(r) ==
    /\ pc[r] = "waiting"
    /\ \E d \in SleepDurations(POLL_INTERVAL) :
          LET elapsed == loc[r].elapsed + d
              unloadedNodes == UnloadedNodes(flags)
              lg == log[r] \o << Ev("pollSleep", [from |-> loc[r].elapsed, to |-> elapsed]),
                                 Ev("poll", [at |-> elapsed, flags |-> flags]) >>
          IN  /\ loc' = [loc EXCEPT ![r].elapsed = elapsed]
              /\ IF KeepWaiting(unloadedNodes, elapsed, cfg.maxWait)
                 THEN /\ log' = [log EXCEPT ![r] = lg]
                      /\ UNCHANGED pc
                 ELSE /\ log' = [log EXCEPT ![r] =
                                   lg \o << Ev("waitReturn", unloadedNodes) >>]
                      /\ pc' = [pc EXCEPT ![r] = "done"]
    /\ UNCHANGED <<cfg, canvas, leafOpen, body, flags>>

\* during a wait the host takes the content of a mounted node away again (once
\* for a node)
HostNodeUnloaded(i) ==
    /\ i \in DOMAIN flags
    /\ flags[i].isContentMounted = "true"
    /\ \E r \in Reqs :
          /\ pc[r] = "waiting"
          /\ Ev("unmounted", i) \notin {log[r][j] : j \in DOMAIN log[r]}
          /\ log' = [log EXCEPT ![r] = @ \o << Ev("unmounted", i) >>]
    /\ flags' = [flags EXCEPT ![i].isContentMounted = "false"]
    /\ UNCHANGED <<cfg, canvas, leafOpen, body, pc, loc>>

WaitNext ==
    \/ WaitCall(1)
    \/ WaitPoll(1)
    \/ \E i \in 1 .. 2 : HostNodeLoaded(i)
    \/ \E i \in 1 .. 2 : HostNodeUnloaded(i)

WaitSpec == WaitInit /\ [][WaitNext]_vars

\* the timer of a sleep fires in the end: a wait that sleeps is resumed
FairWaitSpec == WaitSpec /\ WF_vars(WaitPoll(1))

(***************************************************************************)
(* The geometry functions and calculateBoundingBox, called on their own    *)
(***************************************************************************)
\* the coordinates of the boxes given to the geometry functions
GeomCoords == {Num(-3), Num(0), Frac(5, 2)}

\* what combineBBoxes gives for no box
EmptyBox == BBox(PosInf, PosInf, NegInf, NegInf)

\* boxes whose sides are in order, and the box of nothing
GeomBoxes ==
    {b \in {BBox(x1, y1, x2, y2) : x1 \in GeomCoords, y1 \in GeomCoords,
                                   x2 \in GeomCoords, y2 \in GeomCoords} :
        Le(b.minX, b.maxX) /\ Le(b.minY, b.maxY)}
        \cup {EmptyBox}

GeomBoxLists == {<<>>} \cup {<<b>> : b \in GeomBoxes} \cup (GeomBoxes \X GeomBoxes)

GeomScales == {Num(0), Frac(1, 2), Num(1), Frac(11, 10), Num(2)}

GeomPaddings == {Num(0), Frac(11, 10), Num(3)}

\* nodes by what their getBBox does; a box it returns is larger or smaller than
\* the rectangle of the node, or has its sides out of order
GeomNodes ==
    { Node(0, 0, 20, 20, "absent", NoBox, "true", "true"),
      Node(0, 0, 20, 20, "box", BBox(Num(10), Num(10), Num(5), Num(5)), "true", "true"),
      Node(30, 0, 10, 10, "throws", NoBox, "true", "true"),
      Node(-10, 5, 5, 5, "null", NoBox, "true", "true"),
      Node(0, 0, 20, 20, "box", BBox(Num(-2), Num(-2), Num(22), Num(22)), "true", "true"),
      Node(0, 0, 20, 20, "box", BBox(Num(5), Num(5), Num(10), Num(10)), "true", "true") }

GeomNodeLists == {<<>>} \cup {<<n>> : n \in GeomNodes} \cup (GeomNodes \X GeomNodes)

\* edges by what their getBBox does
GeomEdges ==
    { Edge(25, 10, FALSE, 0, "absent", NoBox),
      Edge(25, 10, FALSE, 0, "throws", NoBox),
      Edge(25, 10, FALSE, 0, "null", NoBox),
      Edge(25, 10, FALSE, 0, "box", BBox(Num(20), Num(5), Num(60), Num(40))),
      Edge(25, 10, FALSE, 0, "box", BBox(Num(-50), Num(-50), Num(-40), Num(-40))) }

GeomEdgeLists == {<<>>} \cup {<<e>> : e \in GeomEdges} \cup (GeomEdges \X GeomEdges)

GeomInit ==
    /\ cfg = [canvas |-> [nodes |-> <<>>, edges |-> <<>>],
              rect |-> [width |-> Num(8), height |-> Num(6)]]
    /\ canvas = RestingCanvas
    /\ leafOpen = TRUE
    /\ body = {}
    /\ flags = <<>>
    /\ pc = [r \in Reqs |-> "idle"]
    /\ loc = [r \in Reqs |-> InitLoc]
    /\ log = [r \in Reqs |-> <<>>]

\* a call of a function, as the history keeps it: its arguments and its result
Call(name, input, output) == Ev(name, [input |-> input, output |-> output])

CallCalculateBoundingBox(r) ==
    /\ pc[r] = "idle"
    /\ \E nodes \in GeomNodeLists, edges \in GeomEdgeLists :
          log' = [log EXCEPT ![r] =
                    << Call("calculateBoundingBox", [nodes |-> nodes, edges |-> edges],
                            calculateBoundingBox(nodes, edges)) >>]
    /\ pc' = [pc EXCEPT ![r] = "done"]
    /\ UNCHANGED <<cfg, canvas, leafOpen, body, flags, loc>>

CallCombineBBoxes(r) ==
    /\ pc[r] = "idle"
    /\ \E bboxes \in GeomBoxLists :
          log' = [log EXCEPT ![r] =
                    << Call("combineBBoxes", [bboxes |-> bboxes], combineBBoxes(bboxes)) >>]
    /\ pc' = [pc EXCEPT ![r] = "done"]
    /\ UNCHANGED <<cfg, canvas, leafOpen, body, flags, loc>>

CallScaleBBox(r) ==
    /\ pc[r] = "idle"
    /\ \E bbox \in GeomBoxes, scale \in GeomScales :
          log' = [log EXCEPT ![r] =
                    << Call("scaleBBox", [bbox |-> bbox, scale |-> scale],
                            scaleBBox(bbox, scale)) >>]
    /\ pc' = [pc EXCEPT ![r] = "scaled"]
    /\ UNCHANGED <<cfg, canvas, leafOpen, body, flags, loc>>

\* enlargeBBox is called first, or after a call of scaleBBox (as in the capture)
CallEnlargeBBox(r) ==
    /\ pc[r] \in {"idle", "scaled"}
    /\ \E bbox \in GeomBoxes, padding \in GeomPaddings :
          log' = [log EXCEPT ![r] = @ \o
                    << Call("enlargeBBox", [bbox |-> bbox, padding |-> padding],
                            enlargeBBox(bbox, padding)) >>]
    /\ pc' = [pc EXCEPT ![r] = "done"]
    /\ UNCHANGED <<cfg, canvas, leafOpen, body, flags, loc>>

\* STEP 6 for a canvas without edges, with a padding of any size: the box of no
\* labels is padded and merged into the working box
CallAugmentWithNoLabels(r) ==
    /\ pc[r] = "idle"
    /\ \E bbox \in GeomBoxes, padding \in GeomPaddings :
          LET labels == enlargeBBox(combineBBoxes(<<>>), padding)
          IN  log' = [log EXCEPT ![r] =
                        << Call("augmentWithLabels",
                                [bbox |-> bbox, padding |-> padding, labels |-> labels],
                                augmentWithLabels(bbox, labels)) >>]
    /\ pc' = [pc EXCEPT ![r] = "done"]
    /\ UNCHANGED <<cfg, canvas, leafOpen, body, flags, loc>>

\* the surfaces zoomToRealBbox may find: none, one without width or height, one
\* of 8 by 6
GeomRects ==
    { NoRect, [width |-> Num(0), height |-> Num(6)], [width |-> Num(8), height |-> Num(0)],
      [width |-> Num(8), height |-> Num(6)] }

\* the boxes zoomToRealBbox may be given: those of GeomBoxes and one with its
\* sides out of order
GeomZoomBoxes == GeomBoxes \cup {BBox(Frac(5, 2), Num(0), Num(-3), Frac(5, 2))}

\* the canvases zoomToRealBbox may be given: exporting or not, the user zooming
\* (zoomCenter a point) or not
GeomCanvases ==
    {[RestingCanvas EXCEPT !.screenshotting = s, !.zoomCenter = z] :
        s \in BOOLEAN, z \in {"null", "point"}}

CallZoomToRealBbox(r) ==
    /\ pc[r] = "idle"
    /\ \E c \in GeomCanvases, rect \in GeomRects, bbox \in GeomZoomBoxes,
          native \in BOOLEAN, effect \in HostZoomEffects :
          LET result == zoomToRealBboxOnHost(c, rect, bbox, native, effect)
          IN  /\ native \/ effect = "none"
              /\ canvas' = result.canvas
              /\ log' = [log EXCEPT ![r] =
                            << Call("zoomToRealBbox",
                                    [canvas |-> c, rect |-> rect, bbox |-> bbox,
                                     native |-> native, effect |-> effect],
                                    result) >>]
    /\ pc' = [pc EXCEPT ![r] = "done"]
    /\ UNCHANGED <<cfg, leafOpen, body, flags, loc>>

GeomNext ==
    \/ CallZoomToRealBbox(1)
    \/ CallCalculateBoundingBox(1)
    \/ CallCombineBBoxes(1)
    \/ CallScaleBBox(1)
    \/ CallEnlargeBBox(1)
    \/ CallAugmentWithNoLabels(1)

GeomSpec == GeomInit /\ [][GeomNext]_vars

(***************************************************************************)
(* Reading the history of a request, continued                             *)
(***************************************************************************)
\* the position of the first event of that name (0: none)
FirstAt(r, name) ==
    IF Has(r, name)
    THEN CHOOSE i \in DOMAIN log[r] :
            /\ log[r][i][1] = name
            /\ \A j \in 1 .. (i - 1) : log[r][j][1] # name
    ELSE 0

\* the viewport and selection of the canvas when captureCanvasAsImage was called
Began(r) == Events(r, "captureStart")[1][2]

Ended(r) == pc[r] = "done"

\* the canvas shows the viewport and the selection it had when the export began
SameAsBegan(r) ==
    /\ canvas.x = Began(r)[1]
    /\ canvas.y = Began(r)[2]
    /\ canvas.zoom = Began(r)[3]
    /\ canvas.selection = Began(r)[4]

TheResponse(r) == Events(r, "respond")[1][2]

TargetBBox == calculateBoundingBox(cfg.canvas.nodes, cfg.canvas.edges)

(***************************************************************************)
(* Properties                                                              *)
(***************************************************************************)

\* C1: an export that entered its try block (a canvas with nodes, the setup done)
\* ends, whatever framing, the readiness wait and the rasterizer did, with the
\* viewport (x, y, zoom) and the selection the canvas had when the export began.
C1_ViewportAndSelectionRestored ==
    \A r \in Reqs : (Ended(r) /\ Has(r, "try")) => SameAsBegan(r)

\* C1 witness: an export with a selected item was framed twice, rasterized and ended
C1_Witness ==
    /\ Ended(1)
    /\ Has(1, "toPngResolved")
    /\ Count(1, "setViewport") = 3
    /\ Began(1)[4] # {}

\* C2 (as claimed): after any export of a canvas with nodes has ended, by success
\* or by any failure, the screenshotting flag is false, the is-exporting class is
\* absent and the export's interaction blocker is no longer on document.body.
C2_ExportLeavesNoFlagNoGuard ==
    \A r \in Reqs :
        (Ended(r) /\ Has(r, "captureStart") /\ cfg.canvas.nodes # <<>>) =>
            /\ ~canvas.screenshotting
            /\ ~canvas.isExporting
            /\ <<r, "capture">> \notin body

\* C3 (as claimed): an export attempt that installed its guard or set the flag
\* has run the finally block exactly once when it ends, on every exit path.
C3_RestoringRunsExactlyOnce ==
    \A r \in Reqs :
        (Ended(r) /\ (Has(r, "guard") \/ Has(r, "flag"))) => Count(r, "restored") = 1

\* C4: with a canvas without nodes, no request ever calls setViewport, sets the
\* screenshotting flag or the is-exporting class, installs the export's guard or
\* calls the rasterizer; once the export was called, it has failed with the
\* no-nodes error and the viewport and selection are those it was called with.
C4_NoNodesNoChange ==
    cfg.canvas.nodes = <<>> =>
        /\ ~canvas.screenshotting
        /\ ~canvas.isExporting
        /\ \A r \in Reqs :
              /\ ~Has(r, "setViewport") /\ ~Has(r, "flag") /\ ~Has(r, "class")
              /\ ~Has(r, "guard") /\ ~Has(r, "deselectAll") /\ ~Has(r, "toPng")
              /\ <<r, "capture">> \notin body
              /\ Has(r, "captureStart") =>
                    /\ SameAsBegan(r)
                    /\ Ended(r)
                    /\ Events(r, "captureThrow")[1][2] = NoNodesError
                    /\ TheResponse(r) = ErrorResponse(500, NoNodesError)

\* C4 witness: the export of a canvas without nodes was called and has ended
C4_Witness ==
    /\ cfg.canvas.nodes = <<>>
    /\ Ended(1)
    /\ Has(1, "captureStart")
    /\ canvas.x = Num(7)

\* C5: once the readiness wait has returned a non-empty list, the export has
\* failed with the did-not-finish-loading error, the rasterizer was not called by
\* that request and the response carries no image.
C5_UnreadyNodesGateCapture ==
    \A r \in Reqs :
        (Has(r, "waitReturn") /\ Events(r, "waitReturn")[1][2] # {}) =>
            /\ Ended(r)
            /\ ~Has(r, "toPng")
            /\ Events(r, "captureThrow")[1][2] = NotLoadedError
            /\ TheResponse(r) = ErrorResponse(500, NotLoadedError)

\* C5 witness: a readiness wait returned a node that was still loading
C5_Witness == Has(1, "waitReturn") /\ Events(1, "waitReturn")[1][2] = {2}

\* C6 (as claimed): a render timeout is raised no earlier than the maximum wait
\* after the readiness wait started and no later than the maximum wait plus one
\* poll interval, and the viewport and selection then equal those before the call.
C6_TimeoutWithinOnePoll ==
    \A r \in Reqs :
        Has(r, "timedOut") =>
            LET at == Events(r, "timedOut")[1][2][1]
            IN  /\ at >= MAX_LOADING_TIME
                /\ at <= MAX_LOADING_TIME + POLL_INTERVAL
                /\ SameAsBegan(r)

\* C6 (amended): a render timeout is raised no earlier than the maximum wait
\* after the readiness wait started, at the end of a sleep(10) that began before
\* the maximum wait had elapsed and lasted 10 ms or more; the viewport and
\* selection then equal those before the call.
C6_TimeoutAtEndOfLastSleep ==
    \A r \in Reqs :
        Has(r, "timedOut") =>
            LET at == Events(r, "timedOut")[1][2][1]
                lastSleep == Events(r, "timedOut")[1][2][2]
            IN  /\ at >= MAX_LOADING_TIME
                /\ at - lastSleep < MAX_LOADING_TIME
                /\ lastSleep >= POLL_INTERVAL
                /\ SameAsBegan(r)

\* C6 witness: a node never mounted its content and the wait timed out
C6_Witness ==
    /\ Has(1, "timedOut")
    /\ flags[2].isContentMounted = "false"
    /\ Events(1, "timedOut")[1][2][1] >= MAX_LOADING_TIME
    /\ Began(1)[4] # {}

\* C7: a request whose export entered its try block is answered (with the image,
\* the timeout error or the rasterizer's error) only after the finally block of
\* that export has completed.
C7_ResponseAfterRestoring ==
    \A r \in Reqs :
        \A i \in DOMAIN log[r] :
            (log[r][i][1] = "respond" /\ Has(r, "try")) =>
                \E j \in 1 .. (i - 1) : log[r][j][1] = "restored"

\* C7 witness: the rasterizer rejected and the error was sent
C7_Witness == Has(1, "toPngRejected") /\ Has(1, "respond") /\ Has(1, "restored")

\* C8: a request is answered at most once, and exactly once when it has ended;
\* a response with an image has status 200 and mimeType image/png and follows a
\* resolved rasterizer call; any other response has an error message, an error
\* status and no image; the rasterizer is called at most once per request.
C8_OneResponseNoRetry ==
    \A r \in Reqs :
        /\ Count(r, "respond") <= 1
        /\ Ended(r) <=> Count(r, "respond") = 1
        /\ Count(r, "toPng") <= 1
        /\ Has(r, "respond") =>
              IF TheResponse(r).image # "none"
              THEN /\ TheResponse(r).status = 200
                   /\ TheResponse(r).mimeType = "image/png"
                   /\ TheResponse(r).error = "none"
                   /\ Has(r, "toPngResolved")
                   /\ FirstAt(r, "toPngResolved") < FirstAt(r, "respond")
              ELSE /\ TheResponse(r).status >= 400
                   /\ TheResponse(r).mimeType = "none"
                   /\ TheResponse(r).error # "none"

\* C8 witness: a request was answered with the image
C8_Witness == Ended(1) /\ TheResponse(1).image = "png"

\* whether the content box of the canvas has no width or no height
DegenerateTarget ==
    BoxWidth(TargetBBox) = Num(0) \/ BoxHeight(TargetBBox) = Num(0)

\* C9 (as claimed): when the content box has zero width or zero height, an export
\* that entered its try block has failed with an error and no setViewport call
\* with framing values was made (the only viewport set is the cached one).
C9_DegenerateBoxFailsFast ==
    \A r \in Reqs :
        (Has(r, "try") /\ DegenerateTarget) =>
            /\ Ended(r)
            /\ Has(r, "captureThrow")
            /\ ~Has(r, "toPng")
            /\ \A i \in DOMAIN log[r] :
                  log[r][i][1] = "setViewport" =>
                      log[r][i][2] = <<Began(r)[1], Began(r)[2], Began(r)[3]>>

\* the aspect ratio of the width and height an export handed to the rasterizer
CaptureAspect(r) ==
    Div(Events(r, "toPng")[1][2].width, Events(r, "toPng")[1][2].height)

\* C10 (as claimed): on a successful export, the capture width divided by the
\* capture height equals canvasRect.width / canvasRect.height.
C10_CaptureHasSurfaceAspect ==
    \A r \in Reqs :
        Has(r, "toPngResolved") => CaptureAspect(r) = Div(cfg.rect.width, cfg.rect.height)

\* C10 (amended): on a successful export of a canvas whose content box has
\* positive width and height, the capture width divided by the capture height
\* equals the aspect ratio of the content box (targetAspectRatio).
C10_CaptureHasContentAspect ==
    \A r \in Reqs :
        (Has(r, "toPngResolved") /\ Gt(BoxWidth(TargetBBox), Num(0))
                                 /\ Gt(BoxHeight(TargetBBox), Num(0))) =>
            CaptureAspect(r) = Div(BoxWidth(TargetBBox), BoxHeight(TargetBBox))

\* C10 witness: a successful export of a canvas whose content is wider than the
\* render surface
C10_Witness ==
    /\ Has(1, "toPngResolved")
    /\ Gt(BoxHeight(TargetBBox), Num(0))
    /\ Gt(Div(BoxWidth(TargetBBox), BoxHeight(TargetBBox)),
          Div(cfg.rect.width, cfg.rect.height))

(***************************************************************************)
(* Properties of the handler, the filter and the framing                   *)
(***************************************************************************)

\* the request a handler activation was given (its "request" event)
TheRequest(lg) == lg[2][2]

\* the response the handler gives to a request that fails validation
ValidationError(q) ==
    IF ~q.valid THEN ErrorResponse(400, "Invalid request body")
    ELSE IF q.file = "missing" THEN ErrorResponse(404, "File not found")
    ELSE ErrorResponse(400, "File is not a canvas file")

\* C11: a request with an invalid body, a missing file or a file that is not a
\* canvas file is answered in the handler's first task with 400, 404 and 400
\* respectively; in that task captureCanvasAsImage is not called, the canvas
\* (viewport, selection, screenshotting flag, class) and the node flags are left
\* as they were, and document.body holds no blocker it did not hold before: the
\* handler's blocker has been removed.
C11_ValidationErrorsChangeNothing ==
    [][\A r \in Reqs :
          (pc[r] = "idle" /\ pc'[r] # "idle"
             /\ (~TheRequest(log'[r]).valid \/ TheRequest(log'[r]).file # "canvas")) =>
               /\ pc'[r] = "done"
               /\ log'[r] = << Ev("handlerBlocker", 0), log'[r][2],
                               Ev("respond", ValidationError(TheRequest(log'[r]))),
                               Ev("handlerFinally", 0) >>
               /\ canvas' = canvas
               /\ flags' = flags
               /\ body' = body
               /\ <<r, "handler">> \notin body']_vars

\* C11 witness: a request for a missing file was answered with 404 while the
\* canvas had a selection and a viewport of its own
C11_Witness ==
    /\ Ended(1)
    /\ TheResponse(1).status = 404
    /\ canvas.selection # {}
    /\ canvas.x = Num(7)

\* C12: whenever the rasterizer is called, the filter it is given returns false
\* for every element of the other canvas in the render tree, and none of them is
\* among the elements let into the capture.
C12_OtherCanvasFilteredOut ==
    \A r \in Reqs :
        \A i \in DOMAIN log[r] :
            log[r][i][1] = "toPng" =>
                \A e \in OtherCanvasElements :
                    /\ e \in RenderTree(cfg.canvas.nodes, cfg.canvas.edges)
                    /\ ~filter(e, cfg.canvas.nodes, cfg.canvas.edges)
                    /\ e \notin log[r][i][2].included

\* C12 witness: a canvas with a labelled edge was rasterized; its own node, edge
\* and label elements are in the capture
C12_Witness ==
    /\ Has(1, "toPngResolved")
    /\ {nodeEl("exported", 1), lineGroupEl("exported", 1), wrapperEl("exported", 1)}
          \subseteq Events(1, "toPng")[1][2].included

\* the phase an event of the history belongs to: 0 the handler before the export,
\* 1 Preparing, 2 Framing, 3 WaitingReady, 4 Capturing, 5 Restoring, 6 Done or
\* Failed, 7 the handler after the export
PhaseAt(r, i) ==
    LET name == log[r][i][1]
        inExport == \E j \in 1 .. (i - 1) : log[r][j][1] = "captureStart"
    IN  CASE name \in {"captureStart", "guard", "flag", "class", "deselectAll", "try"} -> 1
          [] name \in {"zoomToRealBbox", "measureLabels", "finalSize"} -> 2
          [] name = "setViewport" ->
                IF log[r][i - 1][1] = "selectionRestored" THEN 5 ELSE 2
          [] name = "sleep" -> IF inExport THEN 2 ELSE 0
          [] name \in {"waitStart", "waitReturn", "timedOut"} -> 3
          [] name \in {"toPng", "toPngResolved", "toPngRejected"} -> 4
          [] name \in {"flagCleared", "classRemoved", "selectionRestored",
                       "guardRemoved", "restored"} -> 5
          [] name \in {"captureThrow", "captureReturn"} -> 6
          [] name \in {"respond", "handlerFinally"} -> 7
          [] OTHER -> 0

\* the positions of the viewport applications of the framing
FramingViewports(r) ==
    {i \in DOMAIN log[r] : log[r][i][1] = "setViewport" /\ PhaseAt(r, i) = 2}

\* C13: the events of a request never go back to an earlier phase (Preparing,
\* Framing, WaitingReady, Capturing, Restoring, Done or Failed); the rasterizer is
\* called only after two viewport applications and a readiness wait that
\* returned the empty list; the export returns its image only after the
\* rasterizer resolved and the finally block ran after that.
C13_PhasesInOrder ==
    \A r \in Reqs :
        /\ \A i \in 1 .. (Len(log[r]) - 1) : PhaseAt(r, i) <= PhaseAt(r, i + 1)
        /\ \A i \in DOMAIN log[r] :
              /\ log[r][i][1] = "toPng" =>
                    /\ Cardinality({j \in FramingViewports(r) : j < i}) = 2
                    /\ \E w \in 1 .. (i - 1) :
                          /\ log[r][w] = Ev("waitReturn", {})
                          /\ \A j \in FramingViewports(r) : j < w
              /\ log[r][i][1] = "captureReturn" =>
                    \E p, q \in 1 .. (i - 1) :
                        /\ p < q
                        /\ log[r][p][1] = "toPngResolved"
                        /\ log[r][q][1] = "restored"

\* C13 witness: an export went through every phase and returned its image
C13_Witness ==
    /\ Has(1, "captureReturn")
    /\ {PhaseAt(1, i) : i \in DOMAIN log[1]} = 0 .. 7

\* C14: captureCanvasAsImage is called right after a sleep of the request's
\* timeout (1000 ms when omitted) that follows the activation of the leaf; a
\* canvas that was open is not opened again; a canvas that was not open is first
\* opened in a new leaf and waited for with the same timeout; when no canvas view
\* is there after that wait the request has ended with 'Failed to open canvas
\* view', without activation and without a call of captureCanvasAsImage.
C14_SettleWaitBeforeFraming ==
    \A r \in Reqs :
        LET lg == log[r]
            ms == IF TheRequest(lg).timeout = <<>> THEN 1000 ELSE TheRequest(lg).timeout[1]
        IN  \A i \in DOMAIN lg :
               /\ lg[i][1] = "captureStart" =>
                     /\ i > 3
                     /\ lg[i - 1] = Ev("sleep", ms)
                     /\ lg[i - 2][1] = "activateLeaf"
               /\ lg[i] = Ev("findLeaf", TRUE) =>
                     /\ ~Has(r, "openFile")
                     /\ lg[i + 1][1] = "activateLeaf"
               /\ lg[i] = Ev("findLeaf", FALSE) =>
                     /\ lg[i + 1][1] = "openFile"
                     /\ \A j \in DOMAIN lg : lg[j][1] = "activateLeaf" =>
                           /\ j = i + 4
                           /\ lg[i + 2] = Ev("sleep", ms)
                           /\ lg[i + 3] = Ev("canvasView", TRUE)
               /\ lg[i] = Ev("canvasView", FALSE) =>
                     /\ lg[i - 1] = Ev("sleep", ms)
                     /\ lg[i - 2][1] = "openFile"
                     /\ Ended(r)
                     /\ TheResponse(r) = ErrorResponse(500, "Failed to open canvas view")
                     /\ ~Has(r, "activateLeaf")
                     /\ ~Has(r, "captureStart")

\* C14 witness: a request without a timeout opened the canvas in a new leaf and
\* went on to the export
C14_Witness ==
    /\ Has(1, "captureStart")
    /\ Has(1, "openFile")
    /\ TheRequest(log[1]).timeout = <<>>
    /\ Count(1, "sleep") >= 2

\* C15 (as claimed): after an export that ran its finally block has ended, the
\* viewport (x, y, zoom), the target viewport (tx, ty, tZoom), zoomCenter, the
\* selection, the screenshotting flag and the is-exporting class have the values
\* they had when the export began.
C15_ExportLeavesCanvasAsFound ==
    \A r \in Reqs :
        (Ended(r) /\ Has(r, "restored")) =>
            <<canvas.x, canvas.y, canvas.zoom, canvas.selection,
              canvas.tx, canvas.ty, canvas.tZoom, canvas.zoomCenter,
              canvas.screenshotting, canvas.isExporting>> = Began(r)

\* the position of the first zoomToRealBbox that was followed by setViewport
\* (0: none)
FirstPassAt(r) ==
    IF \E i \in DOMAIN log[r] : log[r][i][1] = "zoomToRealBbox"
                                /\ i + 1 \in DOMAIN log[r]
                                /\ log[r][i + 1][1] = "setViewport"
    THEN FirstAt(r, "zoomToRealBbox")
    ELSE 0

\* the box of the first framing pass and the viewport applied with it
FirstBox(r) == log[r][FirstPassAt(r)][2].bbox

FirstViewport(r) == log[r][FirstPassAt(r) + 1][2]

SurfaceAspect == Div(cfg.rect.width, cfg.rect.height)

\* C16 (as claimed): the viewport applied in the first framing pass has the
\* zoom log2(min(surfaceWidth / boxWidth, surfaceHeight / boxHeight)) of the
\* aspect-adjusted box of the content enlarged by 10%, and its pan is the centre
\* of that box; for a single square node of side W on a square surface of side
\* W2 the zoom is W2 / (1.1 * W) and the pan is the centre of the node.
C16_FirstPassZoomAndPan ==
    \A r \in Reqs :
        FirstPassAt(r) # 0 =>
            LET B == FirstBox(r)
                v == FirstViewport(r)
                enlarged == scaleBBox(TargetBBox, Frac(11, 10))
                n == cfg.canvas.nodes[1]
            IN  /\ B.minX = enlarged.minX /\ B.minY = enlarged.minY
                /\ v[3] = MathLog2(MathMin(Div(cfg.rect.width, BoxWidth(B)),
                                           Div(cfg.rect.height, BoxHeight(B))))
                /\ v[1] = Div(Add(B.minX, B.maxX), Num(2))
                /\ v[2] = Div(Add(B.minY, B.maxY), Num(2))
                /\ (Len(cfg.canvas.nodes) = 1 /\ n.width = n.height
                      /\ cfg.rect.width = cfg.rect.height) =>
                        /\ v[3] = MathLog2(Div(cfg.rect.width, Mul(Frac(11, 10), n.width)))
                        /\ v[1] = Add(n.x, Div(n.width, Num(2)))
                        /\ v[2] = Add(n.y, Div(n.height, Num(2)))

\* C17: every zoom computation of an export runs with the screenshotting flag
\* true; for a box of positive width and height the zoom applied is
\* log2(min(surfaceWidth / boxWidth, surfaceHeight / boxHeight)), not clamped: it
\* is above 1 for a box smaller than the render surface; the same computation
\* with the flag false gives min(that zoom, 1).
C17_ExportZoomNotClamped ==
    \A r \in Reqs :
        \A i \in DOMAIN log[r] :
            log[r][i][1] = "zoomToRealBbox" =>
                LET B == log[r][i][2].bbox
                    zoom == MathMin(Div(cfg.rect.width, BoxWidth(B)),
                                    Div(cfg.rect.height, BoxHeight(B)))
                    clamped == zoomToRealBbox([canvas EXCEPT !.screenshotting = FALSE],
                                              cfg.rect, B)
                IN  /\ log[r][i][2].screenshotting
                    /\ (Gt(BoxWidth(B), Num(0)) /\ Gt(BoxHeight(B), Num(0))
                          /\ i + 1 \in DOMAIN log[r] /\ log[r][i + 1][1] = "setViewport") =>
                            /\ log[r][i + 1][2][3] = MathLog2(zoom)
                            /\ (Lt(BoxWidth(B), cfg.rect.width)
                                  /\ Lt(BoxHeight(B), cfg.rect.height)) => Gt(zoom, Num(1))
                            /\ clamped.tZoom = MathLog2(MathMin(zoom, Num(1)))
                            /\ Le(Exp2(clamped.tZoom), Num(1))

\* C17 witness: an export framed a box smaller than the render surface
C17_Witness ==
    /\ FirstPassAt(1) # 0
    /\ Lt(BoxWidth(FirstBox(1)), cfg.rect.width)
    /\ Lt(BoxHeight(FirstBox(1)), cfg.rect.height)
    /\ Gt(Exp2(FirstViewport(1)[3]), Num(1))
    /\ Count(1, "zoomToRealBbox") = 2

\* C18: when the readiness wait of an export starts, the viewport has been
\* applied exactly twice since the try block was entered, each application is
\* followed at once by one sleep of 10 ms, there are no other sleeps, and the next
\* thing after each sleep is a measurement (of the labels, of the final size);
\* this is so with and without edges and labels.
C18_TwoViewportApplications ==
    \A r \in Reqs :
        Has(r, "waitStart") =>
            LET t == FirstAt(r, "try")
                w == FirstAt(r, "waitStart")
                applied == {i \in t .. w : log[r][i][1] = "setViewport"}
                slept == {i \in t .. w : log[r][i][1] = "sleep"}
            IN  /\ Cardinality(applied) = 2
                /\ Cardinality(slept) = 2
                /\ \A i \in applied :
                      /\ log[r][i - 1][1] = "zoomToRealBbox"
                      /\ log[r][i + 1] = Ev("sleep", 10)
                      /\ log[r][i + 2][1] \in {"measureLabels", "finalSize"}

\* C18 witness: the readiness wait of an export of a canvas without edges started
C18_Witness ==
    /\ Has(1, "waitStart")
    /\ cfg.canvas.edges = <<>>
    /\ Count(1, "zoomToRealBbox") = 2

\* C19 (as claimed): the box of the first framing pass has the minX and minY of
\* the content box enlarged by 10%, at most one of its maxX and maxY differs from
\* the enlarged box's and none is smaller, and its width divided by its height
\* equals the aspect ratio of the render surface.
C19_AdjustedBoxHasSurfaceAspect ==
    \A r \in Reqs :
        Has(r, "zoomToRealBbox") =>
            LET B == Events(r, "zoomToRealBbox")[1][2].bbox
                enlarged == scaleBBox(TargetBBox, Frac(11, 10))
            IN  /\ B.minX = enlarged.minX
                /\ B.minY = enlarged.minY
                /\ Le(enlarged.maxX, B.maxX)
                /\ Le(enlarged.maxY, B.maxY)
                /\ B.maxX = enlarged.maxX \/ B.maxY = enlarged.maxY
                /\ Div(BoxWidth(B), BoxHeight(B)) = SurfaceAspect

\* the boxes of the two framing passes and the padded box of the labels
SecondPass(r) == Count(r, "zoomToRealBbox") = 2

SecondBox(r) == Events(r, "zoomToRealBbox")[2][2].bbox

PassOneBox(r) == Events(r, "zoomToRealBbox")[1][2].bbox

LabelsBox(r) == Events(r, "measureLabels")[1][2].labels

\* C20 (as claimed): the box the second framing pass applies (a box of positive
\* width and height, which zoomToRealBbox accepts) has the aspect ratio of the
\* render surface and the minX and minY of the box of the first pass.
C20_SecondBoxReadjusted ==
    \A r \in Reqs :
        (SecondPass(r) /\ Gt(BoxWidth(SecondBox(r)), Num(0))
                       /\ Gt(BoxHeight(SecondBox(r)), Num(0))) =>
            /\ Div(BoxWidth(SecondBox(r)), BoxHeight(SecondBox(r))) = SurfaceAspect
            /\ SecondBox(r).minX = PassOneBox(r).minX
            /\ SecondBox(r).minY = PassOneBox(r).minY

\* C20 (amended): the box of the second framing pass is the smallest box that
\* contains the box of the first pass and the padded box of the labels measured
\* after the first settle delay (its aspect ratio is not adjusted again): its
\* minX and minY are the smaller of the two boxes' and its maxX and maxY the
\* larger; it is the box of the first pass when the labels' box lies inside it.
C20_SecondBoxIsUnionWithLabels ==
    \A r \in Reqs :
        SecondPass(r) =>
            LET B1 == PassOneBox(r)
                B2 == SecondBox(r)
                L == LabelsBox(r)
            IN  /\ B2.minX = MathMin(B1.minX, L.minX)
                /\ B2.minY = MathMin(B1.minY, L.minY)
                /\ B2.maxX = MathMax(B1.maxX, L.maxX)
                /\ B2.maxY = MathMax(B1.maxY, L.maxY)
                /\ (Le(B1.minX, L.minX) /\ Le(B1.minY, L.minY)
                      /\ Le(L.maxX, B1.maxX) /\ Le(L.maxY, B1.maxY)) => B2 = B1

\* C20 witness: a label reaches to the left of the box of the first pass, whose
\* aspect ratio was that of the render surface
C20_Witness ==
    /\ SecondPass(1)
    /\ Lt(LabelsBox(1).minX, PassOneBox(1).minX)
    /\ SecondBox(1).minX = LabelsBox(1).minX
    /\ Div(BoxWidth(PassOneBox(1)), BoxHeight(PassOneBox(1))) = SurfaceAspect
    /\ Div(BoxWidth(SecondBox(1)), BoxHeight(SecondBox(1))) # SurfaceAspect


(***************************************************************************)
(* Properties of the re-measure step                                       *)
(***************************************************************************)
\* C21: the labels are measured in the step that ends the settle delay of the
\* first application of the viewport, and not before; the scale their widths are
\* divided by is the scale the transform style shows at that moment, so that a
\* label drawn with that scale keeps its width in canvas units; the final size
\* is computed in the step that ends the settle delay of the second application,
\* with the scale the style shows at that moment.
C21_ScalesReadAfterSettling ==
    [][\A r \in Reqs :
          /\ (pc[r] = "settle1" /\ pc'[r] # "settle1") =>
                LET n == Len(log[r])
                    m == log'[r][n + 1]
                    edges == cfg.canvas.edges
                IN  /\ ~Has(r, "measureLabels")
                    /\ Count(r, "setViewport") = 1
                    /\ log[r][n - 1][1] = "setViewport"
                    /\ log[r][n] = Ev("sleep", SETTLE_DELAY)
                    /\ m[1] = "measureLabels"
                    /\ m[2].canvasScale = canvas.transform
                    /\ (Len(edges) = 1 /\ edges[1].labelled) =>
                          BoxWidth(m[2].labels) = Add(edges[1].labelW, Frac(11, 5))
          /\ (pc[r] = "settle2" /\ pc'[r] # "settle2") =>
                LET n == Len(log[r])
                    f == log'[r][n + 1]
                    viewWidth == Div(cfg.rect.width, Exp2(canvas.zoom))
                    viewHeight == Div(cfg.rect.height, Exp2(canvas.zoom))
                IN  /\ ~Has(r, "finalSize")
                    /\ Count(r, "setViewport") = 2
                    /\ log[r][n - 1][1] = "setViewport"
                    /\ log[r][n] = Ev("sleep", SETTLE_DELAY)
                    /\ f[1] = "finalSize"
                    /\ f[2].canvasScale = canvas.transform
                    /\ \/ f[2].width = Mul(viewWidth, canvas.transform)
                       \/ f[2].height = Mul(viewHeight, canvas.transform)
      ]_vars

\* C21 witness: a frame was rendered during each settle delay; the labels were
\* measured with a scale that is not the scale the canvas had when the export
\* began, and the final size with yet another scale
C21_Witness ==
    /\ Has(1, "finalSize")
    /\ \E i \in DOMAIN cfg.canvas.edges : cfg.canvas.edges[i].labelled
    /\ Events(1, "measureLabels")[1][2].canvasScale # Exp2(Began(1)[3])
    /\ Events(1, "finalSize")[1][2].canvasScale
          # Events(1, "measureLabels")[1][2].canvasScale


\* the rectangle step 6 makes of an edge: a horizontal line through the centre
\* of the edge, as wide as its label (of no width without a label)
LabelLine(e) ==
    LET half == IF e.labelled THEN Div(e.labelW, Num(2)) ELSE Num(0)
    IN  BBox(Sub(e.cx, half), e.cy, Add(e.cx, half), e.cy)

LabelPadding == Frac(11, 10)

\* C22 (as claimed): the box of the labels is the combined rectangle of the
\* edges that have a label, grown by 10% of its own width and height.
C22_LabelledEdgesPaddedTenPercent ==
    \A r \in Reqs :
        Has(r, "measureLabels") =>
            LET edges == cfg.canvas.edges
                HasLabel(e) == e.labelled
                labelled == SelectSeq(edges, HasLabel)
            IN  LabelsBox(r) =
                    scaleBBox(combineBBoxes([i \in 1 .. Len(labelled) |->
                                                LabelLine(labelled[i])]),
                              Frac(11, 10))

\* C22 (amended): every edge contributes a rectangle, an edge without a label
\* the point of its centre; the box of the labels is the smallest box that
\* contains these rectangles, with each of its four sides moved outward by 1.1
\* canvas units (the empty box when the canvas has no edges).
C22_EveryEdgePaddedByFixedMargin ==
    \A r \in Reqs :
        Has(r, "measureLabels") =>
            LET edges == cfg.canvas.edges
                L == LabelsBox(r)
                E == DOMAIN edges
            IN  IF edges = <<>>
                THEN L = BBox(PosInf, PosInf, NegInf, NegInf)
                ELSE /\ \A i \in E :
                           /\ Le(Add(L.minX, LabelPadding), LabelLine(edges[i]).minX)
                           /\ Le(Add(L.minY, LabelPadding), LabelLine(edges[i]).minY)
                           /\ Le(LabelLine(edges[i]).maxX, Sub(L.maxX, LabelPadding))
                           /\ Le(LabelLine(edges[i]).maxY, Sub(L.maxY, LabelPadding))
                     /\ \E i \in E : Add(L.minX, LabelPadding) = LabelLine(edges[i]).minX
                     /\ \E i \in E : Add(L.minY, LabelPadding) = LabelLine(edges[i]).minY
                     /\ \E i \in E : Sub(L.maxX, LabelPadding) = LabelLine(edges[i]).maxX
                     /\ \E i \in E : Sub(L.maxY, LabelPadding) = LabelLine(edges[i]).maxY

\* C22 witness: the only edge of the canvas has no label, and the box of the
\* labels is the square of side 2.2 around its centre
C22_Witness ==
    /\ Has(1, "measureLabels")
    /\ Len(cfg.canvas.edges) = 1
    /\ ~cfg.canvas.edges[1].labelled
    /\ BoxWidth(LabelsBox(1)) = Frac(11, 5)
    /\ BoxHeight(LabelsBox(1)) = Frac(11, 5)


(***************************************************************************)
(* Properties of the readiness wait                                        *)
(***************************************************************************)
\* the nodes that have a flag set to false among the flags f
Unready(f) == {i \in DOMAIN f : "false" \in {f[i].initialized, f[i].isContentMounted}}

Polls(r) == Events(r, "poll")

LastPoll(r) == Polls(r)[Len(Polls(r))][2]

Returned(r) == Events(r, "waitReturn")[1][2]

\* C23 (as claimed): the wait (with a maximum wait above 0) returns the nodes
\* that were unready at its last poll, and it returns the empty set exactly if at
\* some poll before the deadline no node was unready.
C23_EmptyIffReadyBeforeDeadline ==
    \A r \in Reqs :
        (Has(r, "waitReturn") /\ cfg.maxWait > 0) =>
            /\ Returned(r) = Unready(LastPoll(r).flags)
            /\ Returned(r) = {} <=>
                  \E i \in DOMAIN Polls(r) :
                      /\ Unready(Polls(r)[i][2].flags) = {}
                      /\ Polls(r)[i][2].at < cfg.maxWait

\* C23 (amended): the wait ends by returning (it does not throw); it returns the
\* nodes that were unready at its last poll, and it returns the empty set exactly
\* if at some poll no node was unready, a poll being the check on entry or the
\* check at the end of a sleep that began before the deadline; that poll is then
\* the last one, and it may fall on or after the deadline.
C23_EmptyIffReadyAtSomePoll ==
    \A r \in Reqs :
        /\ Ended(r) => Has(r, "waitReturn") /\ ~Has(r, "captureThrow")
        /\ Has(r, "waitReturn") =>
              /\ Returned(r) = Unready(LastPoll(r).flags)
              /\ Returned(r) = {} <=>
                    \E i \in DOMAIN Polls(r) : Unready(Polls(r)[i][2].flags) = {}
              /\ \A i \in DOMAIN Polls(r) :
                    Unready(Polls(r)[i][2].flags) = {} => i = Len(Polls(r))
              /\ \A i \in DOMAIN log[r] :
                    log[r][i][1] = "poll" =>
                       \/ i = 1 /\ log[r][i][2].at = 0
                       \/ /\ i > 1
                          /\ log[r][i - 1][1] = "pollSleep"
                          /\ log[r][i - 1][2].from < cfg.maxWait
                          /\ log[r][i - 1][2].to = log[r][i][2].at

\* C23 witness: a node that was unready on entry was mounted, lost its content
\* again and was found unready by a later poll; the wait returned the empty set
\* from a poll on or after the deadline
C23_Witness ==
    /\ Has(1, "waitReturn")
    /\ Returned(1) = {}
    /\ LastPoll(1).at >= cfg.maxWait
    /\ \E i \in DOMAIN log[1] :
          /\ log[1][i][1] = "unmounted"
          /\ cfg.canvas.nodes[log[1][i][2]].isContentMounted = "false"
          /\ \E j \in DOMAIN log[1] :
                /\ j > i
                /\ log[1][j][1] = "poll"
                /\ log[1][i][2] \in Unready(log[1][j][2].flags)


PollSleeps(r) == Events(r, "pollSleep")

\* C24 (as claimed): no sleep of the wait begins on or after the maximum wait,
\* and the wait returns no later than the maximum wait plus one poll interval
\* after it began.
C24_WaitWithinOnePollInterval ==
    \A r \in Reqs :
        /\ \A i \in DOMAIN PollSleeps(r) : PollSleeps(r)[i][2].from < cfg.maxWait
        /\ Has(r, "waitReturn") => LastPoll(r).at <= cfg.maxWait + POLL_INTERVAL

\* what every state of the wait satisfies: each sleep begins at a poll that found
\* an unready node before the maximum wait had elapsed, and lasts the poll
\* interval or longer, so that the sleeps are fewer than the maximum wait divided
\* by the poll interval, plus one; the wait returns at the first poll that finds
\* no unready node or the maximum wait elapsed, which is less than the duration
\* of the last sleep after the maximum wait
WaitSteps(r) ==
    /\ Len(PollSleeps(r)) \in {Len(Polls(r)), Len(Polls(r)) - 1}
    /\ \A k \in DOMAIN PollSleeps(r) :
          /\ Polls(r)[k][2].at = PollSleeps(r)[k][2].from
          /\ Unready(Polls(r)[k][2].flags) # {}
          /\ PollSleeps(r)[k][2].from < cfg.maxWait
          /\ PollSleeps(r)[k][2].to >= PollSleeps(r)[k][2].from + POLL_INTERVAL
    /\ Len(PollSleeps(r)) * POLL_INTERVAL < cfg.maxWait + POLL_INTERVAL
    /\ Has(r, "waitReturn") =>
          /\ log[r][Len(log[r])][1] = "waitReturn"
          /\ log[r][Len(log[r]) - 1][1] = "poll"
          /\ Unready(LastPoll(r).flags) = {} \/ LastPoll(r).at >= cfg.maxWait
          /\ IF PollSleeps(r) = <<>>
             THEN LastPoll(r).at = 0
             ELSE LET last == PollSleeps(r)[Len(PollSleeps(r))][2]
                  IN  /\ LastPoll(r).at = last.to
                      /\ LastPoll(r).at < cfg.maxWait + (last.to - last.from)

\* C24 (amended): a wait that sleeps returns in the end; no sleep begins on or
\* after the maximum wait, the sleeps are bounded in number, and the wait stops
\* at the first poll that finds no unready node or the maximum wait elapsed: it
\* runs less than the maximum wait plus the duration of its last sleep.
C24_WaitEndsWithLastSleep ==
    /\ [](\A r \in Reqs : WaitSteps(r))
    /\ \A r \in Reqs : (pc[r] = "waiting") ~> (pc[r] = "done")

\* C24 witness: the wait returned more than one poll interval after the maximum
\* wait, at the end of a sleep that began before it
C24_Witness ==
    /\ Has(1, "waitReturn")
    /\ PollSleeps(1) # <<>>
    /\ LastPoll(1).at > cfg.maxWait + POLL_INTERVAL
    /\ PollSleeps(1)[Len(PollSleeps(1))][2].from < cfg.maxWait


(***************************************************************************)
(* Properties of the element filter                                        *)
(***************************************************************************)
\* the element was created for a node, an edge or a labelled edge of the
\* exported canvas
OfExportedNode(e) ==
    e.canvas = "exported" /\ e.item \in DOMAIN cfg.canvas.nodes

OfExportedEdge(e) ==
    e.canvas = "exported" /\ e.item \in DOMAIN cfg.canvas.edges

OfExportedLabel(e) ==
    OfExportedEdge(e) /\ cfg.canvas.edges[e.item].labelled

\* the elements the claim has the filter reject
ForeignItems ==
    {e \in RenderTree(cfg.canvas.nodes, cfg.canvas.edges) :
        \/ e.role = "nodeEl" /\ ~OfExportedNode(e)
        \/ e.role \in {"lineGroupEl", "lineEndGroupEl"} /\ ~OfExportedEdge(e)
        \/ e.role = "wrapperEl" /\ ~OfExportedLabel(e)}

\* C27: of the elements of the render tree, the rasterizer is let to capture all
\* but the node elements, the line and arrow elements and the label wrappers
\* that do not belong to the exported canvas; the node elements, line and arrow
\* elements and label wrappers of the exported canvas and the elements that
\* belong to no canvas item are captured.
C27_FilterRejectsExactlyForeignItems ==
    \A r \in Reqs :
        Has(r, "toPng") =>
            LET included == Events(r, "toPng")[1][2].included
                tree == RenderTree(cfg.canvas.nodes, cfg.canvas.edges)
            IN  /\ included = tree \ ForeignItems
                /\ \A e \in tree :
                      (e.canvas = "none" \/ (e.role = "nodeEl" /\ OfExportedNode(e))
                         \/ (e.role \in {"lineGroupEl", "lineEndGroupEl"} /\ OfExportedEdge(e))
                         \/ (e.role = "wrapperEl" /\ OfExportedLabel(e)))
                      => e \in included

\* C27 witness: the rasterizer was called for a canvas with a labelled edge; the
\* label wrapper of that edge is captured and the one of the other canvas is not
C27_Witness ==
    /\ Has(1, "toPng")
    /\ \E i \in DOMAIN cfg.canvas.edges :
          /\ cfg.canvas.edges[i].labelled
          /\ wrapperEl("exported", i) \in Events(1, "toPng")[1][2].included
    /\ wrapperEl("other", 1) \notin Events(1, "toPng")[1][2].included
    /\ ChromeElements \subseteq Events(1, "toPng")[1][2].included


(***************************************************************************)
(* Properties of calculateBoundingBox and of the geometry functions        *)
(***************************************************************************)
\* the calls of a function in the history of a request: their arguments and
\* their result
CallsOf(r, name) == {Events(r, name)[k][2] : k \in DOMAIN Events(r, name)}

Contains(outer, inner) ==
    /\ Le(outer.minX, inner.minX)
    /\ Le(outer.minY, inner.minY)
    /\ Le(inner.maxX, outer.maxX)
    /\ Le(inner.maxY, outer.maxY)

\* b is the smallest box that contains the boxes of the set S (S not empty)
SmallestAround(b, S) ==
    /\ \A a \in S : Contains(b, a)
    /\ \E a \in S : b.minX = a.minX
    /\ \E a \in S : b.minY = a.minY
    /\ \E a \in S : b.maxX = a.maxX
    /\ \E a \in S : b.maxY = a.maxY

\* a box of numbers
FiniteBox(b) ==
    IsFinite(b.minX) /\ IsFinite(b.minY) /\ IsFinite(b.maxX) /\ IsFinite(b.maxY)

\* a box of numbers with its sides in order
WellFormed(b) ==
    /\ FiniteBox(b)
    /\ Le(b.minX, b.maxX)
    /\ Le(b.minY, b.maxY)

\* the one box of a node: what its query returns when the query exists, does not
\* throw and returns a box, the rectangle of the node otherwise
BoxOfNode(n) ==
    IF n.bbKind \notin {"absent", "throws", "null"}
    THEN n.box
    ELSE BBox(n.x, n.y, Add(n.x, n.width), Add(n.y, n.height))

BoxesOfNodes(nodes) == {BoxOfNode(nodes[i]) : i \in DOMAIN nodes}

BoxesOfEdges(edges) == {edges[i].box : i \in {j \in DOMAIN edges : edges[j].bbKind = "box"}}

\* C25: whatever the bounding-box queries of the nodes do, calculateBoundingBox
\* gives a box of numbers that contains the one box of each node, and, when no
\* edge gives a box, is the smallest such box: a node adds its refined box or its
\* rectangle, never both and never nothing.
C25_EveryNodeContributesOneBox ==
    \A r \in Reqs :
        \A c \in CallsOf(r, "calculateBoundingBox") :
            c.input.nodes # <<>> =>
                /\ FiniteBox(c.output)
                /\ \A b \in BoxesOfNodes(c.input.nodes) : Contains(c.output, b)
                /\ BoxesOfEdges(c.input.edges) = {} =>
                      SmallestAround(c.output, BoxesOfNodes(c.input.nodes))

\* C25 witness: the query of one node throws, the query of the other returns a
\* box that is not the rectangle of the node
C25_Witness ==
    \E c \in CallsOf(1, "calculateBoundingBox") :
        /\ \E i \in DOMAIN c.input.nodes : c.input.nodes[i].bbKind = "throws"
        /\ \E i \in DOMAIN c.input.nodes :
              /\ c.input.nodes[i].bbKind = "box"
              /\ BoxWidth(c.input.nodes[i].box) # c.input.nodes[i].width
        /\ c.input.edges = <<>>
        /\ FiniteBox(c.output)

\* C26: calculateBoundingBox gives the smallest box that contains the boxes of
\* the nodes and the boxes of the edges whose query exists and returns a box;
\* an edge without a query, or whose query throws or returns nothing, changes
\* nothing; with nothing collected the result is the box of nothing.
C26_OnlyEdgesWithBoxContribute ==
    \A r \in Reqs :
        \A c \in CallsOf(r, "calculateBoundingBox") :
            LET collected == BoxesOfNodes(c.input.nodes) \cup BoxesOfEdges(c.input.edges)
            IN  IF collected = {}
                THEN c.output = BBox(PosInf, PosInf, NegInf, NegInf)
                ELSE SmallestAround(c.output, collected)

\* C26 witness: the query of one edge throws, the one of the other returns a box
\* that reaches beyond the nodes
C26_Witness ==
    \E c \in CallsOf(1, "calculateBoundingBox") :
        /\ c.input.nodes # <<>>
        /\ \E i \in DOMAIN c.input.edges : c.input.edges[i].bbKind = "throws"
        /\ \E i \in DOMAIN c.input.edges :
              /\ c.input.edges[i].bbKind = "box"
              /\ c.output.maxX = c.input.edges[i].box.maxX
              /\ \A b \in BoxesOfNodes(c.input.nodes) : Lt(b.maxX, c.output.maxX)

\* C28: combineBBoxes gives, for no box, the box from +infinity to -infinity;
\* for one box, that box; for more, the box whose minX and minY are the least
\* and whose maxX and maxY are the greatest of the boxes given.
C28_CombineIsSmallestEnclosingBox ==
    \A r \in Reqs :
        \A c \in CallsOf(r, "combineBBoxes") :
            LET bboxes == c.input.bboxes
            IN  /\ bboxes = <<>> => c.output = BBox(PosInf, PosInf, NegInf, NegInf)
                /\ Len(bboxes) = 1 => c.output = bboxes[1]
                /\ bboxes # <<>> =>
                      SmallestAround(c.output, {bboxes[i] : i \in DOMAIN bboxes})

\* C28 witness: two boxes of which neither contains the other
C28_Witness ==
    \E c \in CallsOf(1, "combineBBoxes") :
        /\ Len(c.input.bboxes) = 2
        /\ WellFormed(c.input.bboxes[1])
        /\ WellFormed(c.input.bboxes[2])
        /\ c.output # c.input.bboxes[1]
        /\ c.output # c.input.bboxes[2]

\* C29: scaleBBox with the factor 1 and enlargeBBox with the padding 0 give back
\* the well-formed box they are given.
C29_UnitScaleAndZeroPaddingAreIdentity ==
    \A r \in Reqs :
        /\ \A c \in CallsOf(r, "scaleBBox") :
              (WellFormed(c.input.bbox) /\ c.input.scale = Num(1)) =>
                  c.output = c.input.bbox
        /\ \A c \in CallsOf(r, "enlargeBBox") :
              (WellFormed(c.input.bbox) /\ c.input.padding = Num(0)) =>
                  c.output = c.input.bbox

\* C29 witness: both functions were called so, scaleBBox on a box with an area
C29_Witness ==
    /\ \E c \in CallsOf(1, "scaleBBox") :
          /\ WellFormed(c.input.bbox)
          /\ Gt(BoxWidth(c.input.bbox), Num(0))
          /\ Gt(BoxHeight(c.input.bbox), Num(0))
          /\ c.input.scale = Num(1)
    /\ \E c \in CallsOf(1, "enlargeBBox") :
          WellFormed(c.input.bbox) /\ c.input.padding = Num(0)

\* C30: scaleBBox keeps the sums minX + maxX and minY + maxY of a well-formed
\* box (its centre) and multiplies its width and its height by the factor;
\* enlargeBBox moves minX and minY down and maxX and maxY up by the padding, so
\* that the width and the height grow by twice the padding.
C30_ScaleKeepsCentreEnlargePadsAllSides ==
    \A r \in Reqs :
        /\ \A c \in CallsOf(r, "scaleBBox") :
              WellFormed(c.input.bbox) =>
                  /\ Add(c.output.minX, c.output.maxX)
                        = Add(c.input.bbox.minX, c.input.bbox.maxX)
                  /\ Add(c.output.minY, c.output.maxY)
                        = Add(c.input.bbox.minY, c.input.bbox.maxY)
                  /\ BoxWidth(c.output) = Mul(c.input.scale, BoxWidth(c.input.bbox))
                  /\ BoxHeight(c.output) = Mul(c.input.scale, BoxHeight(c.input.bbox))
        /\ \A c \in CallsOf(r, "enlargeBBox") :
              WellFormed(c.input.bbox) =>
                  /\ c.output.minX = Sub(c.input.bbox.minX, c.input.padding)
                  /\ c.output.minY = Sub(c.input.bbox.minY, c.input.padding)
                  /\ c.output.maxX = Add(c.input.bbox.maxX, c.input.padding)
                  /\ c.output.maxY = Add(c.input.bbox.maxY, c.input.padding)
                  /\ BoxWidth(c.output)
                        = Add(BoxWidth(c.input.bbox), Mul(Num(2), c.input.padding))
                  /\ BoxHeight(c.output)
                        = Add(BoxHeight(c.input.bbox), Mul(Num(2), c.input.padding))

\* C30 witness: a box with an area was scaled by 1.1, and a box was padded by 1.1
C30_Witness ==
    /\ \E c \in CallsOf(1, "scaleBBox") :
          /\ WellFormed(c.input.bbox)
          /\ Gt(BoxWidth(c.input.bbox), Num(0))
          /\ Gt(BoxHeight(c.input.bbox), Num(0))
          /\ c.input.scale = Frac(11, 10)
          /\ Gt(BoxWidth(c.output), BoxWidth(c.input.bbox))
    /\ \E c \in CallsOf(1, "enlargeBBox") :
          /\ WellFormed(c.input.bbox)
          /\ c.input.padding = Frac(11, 10)
          /\ Gt(BoxWidth(c.output), BoxWidth(c.input.bbox))


(***************************************************************************)
(* Properties of the guards, of overlapping exports and of the pixel ratio *)
(***************************************************************************)
\* C34: when the handler has ended, on whatever path, document.body carries as
\* many interaction blockers as before the request (none): the handler's and
\* the export's have been removed.
C34_NoBlockerLeftAfterHandler ==
    \A r \in Reqs : Ended(r) => Cardinality(body) = 0


\* C33: for a canvas whose content box has a positive width and height, the
\* pixel ratio the rasterizer is called with is a whole number, 1 or more.
C33_PixelRatioAtLeastOne ==
    \A r \in Reqs :
        (Has(r, "toPng") /\ Gt(BoxWidth(TargetBBox), Num(0))
                         /\ Gt(BoxHeight(TargetBBox), Num(0))) =>
            LET pixelRatio == Events(r, "toPng")[1][2].pixelRatio
            IN  /\ IsFinite(pixelRatio)
                /\ pixelRatio[2] = 1
                /\ Le(Num(1), pixelRatio)


\* C35: merging the padded box of no labels into a well-formed box gives that
\* box, whatever the padding: the box from +infinity to -infinity stays neutral
\* for combineBBoxes when enlargeBBox has padded it.
C35_PaddedEmptyBoxIsNeutral ==
    \A r \in Reqs :
        \A c \in CallsOf(r, "augmentWithLabels") :
            (WellFormed(c.input.bbox) /\ IsFinite(c.input.padding)) =>
                c.output = c.input.bbox

\* C35 witness: a box with an area was merged with the box of no labels, padded
\* by 1.1
C35_Witness ==
    \E c \in CallsOf(1, "augmentWithLabels") :
        /\ WellFormed(c.input.bbox)
        /\ Gt(BoxWidth(c.input.bbox), Num(0))
        /\ Gt(BoxHeight(c.input.bbox), Num(0))
        /\ c.input.padding = Frac(11, 10)
        /\ ~WellFormed(c.input.labels)
        /\ c.output = c.input.bbox


\* the nodes have a width and a height of 0 or more, and the boxes their
\* queries and those of the edges return have their sides in order
SoundItems(nodes, edges) ==
    /\ \A i \in DOMAIN nodes :
          /\ Le(Num(0), nodes[i].width)
          /\ Le(Num(0), nodes[i].height)
          /\ nodes[i].bbKind = "box" => WellFormed(nodes[i].box)
    /\ \A i \in DOMAIN edges : edges[i].bbKind = "box" => WellFormed(edges[i].box)

\* C36: for one node or more, the nodes and the returned boxes being sound,
\* calculateBoundingBox gives a box with minX <= maxX and minY <= maxY that
\* contains every box collected from a node or an edge; it is not the box from
\* +infinity to -infinity.
C36_SoundItemsGiveOrderedBox ==
    \A r \in Reqs :
        \A c \in CallsOf(r, "calculateBoundingBox") :
            (c.input.nodes # <<>> /\ SoundItems(c.input.nodes, c.input.edges)) =>
                /\ Le(c.output.minX, c.output.maxX)
                /\ Le(c.output.minY, c.output.maxY)
                /\ IsFinite(c.output.minX) /\ IsFinite(c.output.maxX)
                /\ IsFinite(c.output.minY) /\ IsFinite(c.output.maxY)
                /\ \A b \in BoxesOfNodes(c.input.nodes) \cup BoxesOfEdges(c.input.edges) :
                      Contains(c.output, b)

\* C36 witness: two sound nodes, one with a refined box, and an edge with a box
\* away from them
C36_Witness ==
    \E c \in CallsOf(1, "calculateBoundingBox") :
        /\ Len(c.input.nodes) = 2
        /\ SoundItems(c.input.nodes, c.input.edges)
        /\ c.input.nodes[1].bbKind = "box"
        /\ c.input.nodes[2].bbKind = "throws"
        /\ \E i \in DOMAIN c.input.edges :
              /\ c.input.edges[i].bbKind = "box"
              /\ c.output.minX = c.input.edges[i].box.minX
        /\ Lt(c.output.minX, c.output.maxX)


\* the nodes of which a flag is exactly false
WithFalseFlag(f) ==
    {i \in DOMAIN f : f[i].initialized = "false" \/ f[i].isContentMounted = "false"}

\* the nodes of which a flag is absent and none is false
AbsentNotFalse(f) ==
    {i \in DOMAIN f : /\ "absent" \in {f[i].initialized, f[i].isContentMounted}
                      /\ f[i].initialized # "false"
                      /\ f[i].isContentMounted # "false"}

ZoomTarget(c) == <<c.tx, c.ty, c.tZoom, c.zoomCenter, c.dirty>>

\* C38: without a method of the host, zoomToRealBbox leaves tx, ty, tZoom and
\* zoomCenter as they were and does not mark the viewport changed if the canvas
\* has no canvasRect, if the canvasRect has a width or a height of 0, or if the
\* box has a width or a height of 0 or less. With a method of the host, that
\* method is called once with the box, and the fallback writes nothing: tZoom
\* and zoomCenter, which the method of the model leaves alone, are as they were,
\* and so is the whole canvas if the method does nothing.
C38_GuardedZoomWritesNothing ==
    \A r \in Reqs :
        \A c \in CallsOf(r, "zoomToRealBbox") :
            LET in == c.input
                out == c.output
                noSurface == \/ in.rect = NoRect
                             \/ in.rect.width = Num(0)
                             \/ in.rect.height = Num(0)
                noExtent == \/ Le(BoxWidth(in.bbox), Num(0))
                            \/ Le(BoxHeight(in.bbox), Num(0))
            IN  /\ (~in.native /\ (noSurface \/ noExtent)) =>
                      /\ ZoomTarget(out.canvas) = ZoomTarget(in.canvas)
                      /\ out.canvas = in.canvas
                      /\ out.hostCalls = <<>>
                /\ in.native =>
                      /\ out.hostCalls = <<in.bbox>>
                      /\ out.canvas.tZoom = in.canvas.tZoom
                      /\ out.canvas.zoomCenter = in.canvas.zoomCenter
                      /\ in.effect = "none" => out.canvas = in.canvas
                /\ canvas = out.canvas

\* C38 witness: the user was zooming and the surface is 8 by 6; a box without
\* width was given and nothing was written
C38_Witness ==
    \E c \in CallsOf(1, "zoomToRealBbox") :
        /\ ~c.input.native
        /\ c.input.rect = [width |-> Num(8), height |-> Num(6)]
        /\ c.input.canvas.zoomCenter = "point"
        /\ BoxWidth(c.input.bbox) = Num(0)
        /\ Gt(BoxHeight(c.input.bbox), Num(0))
        /\ canvas = c.input.canvas

\* C38 witness of the host's method: the surface and the box would let the
\* fallback frame the box, the host's method did nothing, and the canvas is as
\* it was
C38_HostWitness ==
    \E c \in CallsOf(1, "zoomToRealBbox") :
        /\ c.input.native
        /\ c.input.effect = "none"
        /\ c.input.rect = [width |-> Num(8), height |-> Num(6)]
        /\ Gt(BoxWidth(c.input.bbox), Num(0))
        /\ Gt(BoxHeight(c.input.bbox), Num(0))
        /\ c.output.hostCalls = <<c.input.bbox>>
        /\ canvas = c.input.canvas


(***************************************************************************)
(* Two requests for the same canvas                                        *)
(***************************************************************************)
\* the canvases of two overlapping exports: every node is loaded
ConcCanvases ==
    { [nodes |-> <<SmallNode>>, edges |-> <<>>],
      [nodes |-> <<SquareNode, WideNode>>, edges |-> <<OverhangEdge>>] }

\* the canvas is open in a leaf, away from the origin, with its first node
\* selected
ConcInit ==
    /\ cfg \in [canvas : ConcCanvases, rect : {[width |-> Num(8), height |-> Num(6)]}]
    /\ canvas = [x |-> Num(7), y |-> Num(-3), zoom |-> MathLog2(Frac(1, 2)),
                 tx |-> Num(7), ty |-> Num(-3), tZoom |-> MathLog2(Frac(1, 2)),
                 zoomCenter |-> "null", selection |-> {1},
                 screenshotting |-> FALSE, isExporting |-> FALSE,
                 transform |-> Exp2(MathLog2(Frac(1, 2))), dirty |-> FALSE]
    /\ leafOpen = TRUE
    /\ body = {}
    /\ flags = [i \in 1 .. Len(cfg.canvas.nodes) |->
                  [initialized |-> cfg.canvas.nodes[i].initialized,
                   isContentMounted |-> cfg.canvas.nodes[i].isContentMounted]]
    /\ pc = [r \in Reqs |-> "idle"]
    /\ loc = [r \in Reqs |-> InitLoc]
    /\ log = [r \in Reqs |-> <<>>]

\* the handler has no lock: the tasks of the two requests run in any order, each
\* from one suspension point to the next
ConcServe(r) ==
    \/ HandleRequest(r)
    \/ StartCapture(r)
    \/ Settle1Done(r)
    \/ Settle2Done(r)
    \/ ToPngDone(r)

ConcNext == ConcServe(1) \/ ConcServe(2) \/ HostRender

ConcSpec == ConcInit /\ [][ConcNext]_vars


\* the export of b was called while the export of a was suspended inside its try
\* block: a found the flag clear and went into its try block, and b found the
\* flag set, which the finally block of a would have cleared
Overlaps(a, b) ==
    /\ a # b
    /\ Has(a, "try")
    /\ Has(b, "captureStart")
    /\ ~Began(a)[9]
    /\ Began(b)[9]

\* C31: when the export of a second request was called while the export of a
\* first one was suspended, then once both requests have ended the canvas shows
\* the viewport and the selection it had when the first export was called.
C31_OverlappingExportsRestoreCanvas ==
    \A a \in Reqs : \A b \in Reqs :
        (Overlaps(a, b) /\ Ended(a) /\ Ended(b)) => SameAsBegan(a)

\* an export is in flight: it has left its setup and is suspended in its try
\* block, at a settle delay, a poll of the nodes or the rasterizer
InFlight(r) == pc[r] \in {"settle1", "settle2", "poll", "rasterizing"}

\* C32: while an export is in flight, canvas.screenshotting is true and the
\* canvas element has the class is-exporting, whatever the other request does;
\* and every framing zoom of an export is computed with the flag set, that is
\* without the clamp to 1.
C32_FlagHeldWhileInFlight ==
    \A r \in Reqs :
        /\ InFlight(r) => canvas.screenshotting /\ canvas.isExporting
        /\ \A i \in DOMAIN Events(r, "zoomToRealBbox") :
              Events(r, "zoomToRealBbox")[i][2].screenshotting

=============================================================================
